---- MODULE Spec2Model ----
(***************************************************************************)
(* Model of the diff-aware issue pipeline of the AI code review CLI:       *)
(*   src/src/policy/manager.py   PolicyManager.apply_policy                *)
(*   src/src/review/analyzer.py  ReviewAnalyzer.triage / review_file       *)
(*   src/src/review/llm.py       is_rate_limit_error, the retry loop of    *)
(*                               LLMClient.get_completion                  *)
(*   src/src/main.py             review (triage, file loop, policy, result)*)
(*   src/src/safety/utils.py     SafeJSONParser.clean_json_text,           *)
(*                               SecretRedactor.redact                     *)
(*   src/src/providers/github_provider.py  GitHubProvider._parse_patch     *)
(*                                                                         *)
(* Three specifications share the variables:                               *)
(*   SpecPolicy  apply_policy called on an arbitrary list of Issue objects *)
(*               and then once more on its own output;                     *)
(*   Spec        one run of the review command;                            *)
(*   SpecCalls   one call of one function with arguments of the caller's   *)
(*               choice; a get_completion call runs attempt by attempt.    *)
(*                                                                         *)
(* Text is a sequence of characters (one-character strings).  A literal    *)
(* that the code only compares, concatenates or tests for blankness is     *)
(* kept as one non-blank atom of such a sequence.  A confidence is an      *)
(* integer number of hundredths (0..100 for 0.0..1.0).  An optional value  *)
(* is NoneVal or Some(v).  A Python dict is a function on its keys.        *)
(***************************************************************************)
EXTENDS Integers, Sequences, FiniteSets, TLC

VARIABLES
    pc,                   \* position of the caller / of main.review
    max_comments,         \* PolicyManager.max_comments
    max_per_file,         \* PolicyManager.max_per_file
    issues,               \* the argument of the last apply_policy call
    unique_issues,        \* apply_policy's local after dedup and sort
    limited_issues,       \* apply_policy's local after the per-file cap
    final_issues,         \* the list apply_policy returned
    calls,                \* number of apply_policy calls made so far
    filter_files,         \* filter_result.files_to_review (ChangedFile list)
    triage_plan,          \* the dict analyzer.triage returned
    files_to_review_paths,\* main.py local of that name
    file_idx,             \* position of the for loop over filter_files
    all_issues,           \* main.py local of that name
    rate_limit_reached,   \* main.py local of that name
    files_reviewed_count, \* main.py local of that name
    review_log,           \* history: one entry per review_file call
    llm_log,              \* history: one entry per get_completion call
    result,               \* the ReviewResult (NoneVal until built)
    fn,                   \* name of the function a unit caller called last
    args,                 \* the arguments of that call (for get_completion:
                          \* the state of its retry loop)
    ret                   \* what that call returned or raised (NoneVal
                          \* while get_completion is still trying)

vars == <<pc, max_comments, max_per_file, issues, unique_issues,
          limited_issues, final_issues, calls, filter_files, triage_plan,
          files_to_review_paths, file_idx, all_issues, rate_limit_reached,
          files_reviewed_count, review_log, llm_log, result, fn, args, ret>>

policyVars == <<issues, unique_issues, limited_issues, final_issues, calls>>

runVars == <<filter_files, triage_plan, files_to_review_paths, file_idx,
             all_issues, rate_limit_reached, files_reviewed_count,
             review_log, llm_log, result>>

callVars == <<fn, args, ret>>

-----------------------------------------------------------------------------
(* Bounds of the model *)

MaxIssues == 3

MaxFiles == 3

MaxPlan == 3

MaxProseLines == 2

MaxPatchLines == 3

MaxLine == 5

MaxPromptLines == 2

-----------------------------------------------------------------------------
(* Optional values, sequences and text *)

NoneVal == [some |-> FALSE]

Some(v) == [some |-> TRUE, val |-> v]

Min(a, b) == IF a <= b THEN a ELSE b

Max(a, b) == IF a >= b THEN a ELSE b

\* s[:n] for n >= 0
Take(s, n) == SubSeq(s, 1, Min(n, Len(s)))

Front(s) == SubSeq(s, 1, Len(s) - 1)

Last(s) == s[Len(s)]

Range(s) == {s[i] : i \in 1..Len(s)}

IsSpace(c) == c \in {" ", "\n", "\t", "\r"}

RECURSIVE LStrip(_)
LStrip(s) ==
    IF s = <<>> THEN <<>>
    ELSE IF IsSpace(Head(s)) THEN LStrip(Tail(s)) ELSE s

RECURSIVE RStrip(_)
RStrip(s) ==
    IF s = <<>> THEN <<>>
    ELSE IF IsSpace(Last(s)) THEN RStrip(Front(s)) ELSE s

\* str.strip()
Strip(s) == RStrip(LStrip(s))

UpperChars == <<"A", "B", "C", "D", "E", "F", "G", "H", "I", "J", "K", "L", "M",
                "N", "O", "P", "Q", "R", "S", "T", "U", "V", "W", "X", "Y", "Z">>

LowerChars == <<"a", "b", "c", "d", "e", "f", "g", "h", "i", "j", "k", "l", "m",
                "n", "o", "p", "q", "r", "s", "t", "u", "v", "w", "x", "y", "z">>

LowerChar(c) ==
    IF \E k \in 1..26 : UpperChars[k] = c
    THEN LowerChars[CHOOSE k \in 1..26 : UpperChars[k] = c]
    ELSE c

\* str.lower()
Lower(s) == [i \in 1..Len(s) |-> LowerChar(s[i])]

-----------------------------------------------------------------------------
(* domain.py *)

Severity == {"BLOCKER", "IMPORTANT", "NIT", "QUESTION"}

-----------------------------------------------------------------------------
(* policy/manager.py *)

DEFAULT_MAX_COMMENTS == 15

DEFAULT_MAX_PER_FILE == 2

MIN_SUGGESTION_LEN == 8

\* self.min_confidence with no environment override, in hundredths
min_confidence ==
    [s \in Severity |->
        CASE s = "BLOCKER" -> 90
          [] s = "IMPORTANT" -> 85
          [] s = "QUESTION" -> 70
          [] s = "NIT" -> 75]

severity_order ==
    [s \in Severity |->
        CASE s = "BLOCKER" -> 0
          [] s = "IMPORTANT" -> 1
          [] s = "QUESTION" -> 2
          [] s = "NIT" -> 3]

\* variant: the suggestion is measured without trimming
SuggestionTextUntrimmed(issue) ==
    IF issue.suggestion.some THEN issue.suggestion.val ELSE <<>>

\* (issue.suggestion or "").strip()
SuggestionText(issue) ==
    IF issue.suggestion.some THEN Strip(issue.suggestion.val) ELSE <<>>

\* variant: the confidence gate also drops an issue at the threshold
PassesGatesAboveOnly(issue) ==
    /\ ~(issue.confidence <= min_confidence[issue.severity])
    /\ issue.evidence.some
    /\ issue.evidence.val.excerpt # <<>>
    /\ Strip(issue.title) # <<>>
    /\ Strip(issue.message) # <<>>
    /\ (issue.severity \in {"BLOCKER", "IMPORTANT"}
            => ~(Len(SuggestionText(issue)) < MIN_SUGGESTION_LEN))

\* the four gates of the first loop, in order; TRUE when the issue is kept
PassesGates(issue) ==
    /\ ~(issue.confidence < min_confidence[issue.severity])
    /\ issue.evidence.some
    /\ issue.evidence.val.excerpt # <<>>
    /\ Strip(issue.title) # <<>>
    /\ Strip(issue.message) # <<>>
    /\ (issue.severity \in {"BLOCKER", "IMPORTANT"}
            => ~(Len(SuggestionText(issue)) < MIN_SUGGESTION_LEN))

\* "if not issue.fingerprint: issue.fingerprint = f'{path}:{ls}:{le}:{title}'"
WithFingerprint(issue) ==
    IF issue.fingerprint.some /\ issue.fingerprint.val # <<>>
    THEN issue
    ELSE [issue EXCEPT !.fingerprint =
            Some(<<issue.path, issue.line_start, issue.line_end, issue.title>>)]

RECURSIVE FilterIssues(_)
FilterIssues(input) ==
    IF input = <<>> THEN <<>>
    ELSE IF PassesGates(Head(input))
         THEN <<WithFingerprint(Head(input))>> \o FilterIssues(Tail(input))
         ELSE FilterIssues(Tail(input))

\* variant: the key holds the title as written
semantic_key_raw_title(issue) ==
    <<issue.path, issue.line_start, issue.line_end, issue.severity,
      issue.title>>

semantic_key(issue) ==
    <<issue.path, issue.line_start, issue.line_end, issue.severity,
      Lower(Strip(issue.title))>>

RECURSIVE DedupFrom(_, _)
DedupFrom(input, seen) ==
    IF input = <<>> THEN <<>>
    ELSE IF semantic_key(Head(input)) \notin seen
         THEN <<Head(input)>>
              \o DedupFrom(Tail(input), seen \cup {semantic_key(Head(input))})
         ELSE DedupFrom(Tail(input), seen)

Dedup(input) == DedupFrom(input, {})

\* variant: confidence ascending (the minus sign is missing)
SortKeyAscending(issue) == <<severity_order[issue.severity], issue.confidence>>

\* key=lambda x: (severity_order.get(x.severity, 4), -float(x.confidence))
SortKey(issue) == <<severity_order[issue.severity], 0 - issue.confidence>>

\* tuple comparison k1 <= k2
KeyLeq(k1, k2) == k1[1] < k2[1] \/ (k1[1] = k2[1] /\ k1[2] <= k2[2])

\* variant: an equal key is placed before its equals (not stable)
RECURSIVE InsertByKeyTiesFirst(_, _)
InsertByKeyTiesFirst(sorted, x) ==
    IF sorted = <<>> THEN <<x>>
    ELSE IF KeyLeq(SortKey(x), SortKey(Head(sorted)))
         THEN <<x>> \o sorted
         ELSE <<Head(sorted)>> \o InsertByKeyTiesFirst(Tail(sorted), x)

RECURSIVE InsertByKey(_, _)
InsertByKey(sorted, x) ==
    IF sorted = <<>> THEN <<x>>
    ELSE IF KeyLeq(SortKey(Head(sorted)), SortKey(x))
         THEN <<Head(sorted)>> \o InsertByKey(Tail(sorted), x)
         ELSE <<x>> \o sorted

\* list.sort(key=...): a stable sort
RECURSIVE SortIssues(_)
SortIssues(input) ==
    IF input = <<>> THEN <<>>
    ELSE InsertByKey(SortIssues(Front(input)), Last(input))

\* variant: the cap test is off by one (current > cap)
RECURSIVE LimitFromOffByOne(_, _, _)
LimitFromOffByOne(input, file_counts, cap) ==
    IF input = <<>> THEN <<>>
    ELSE LET path == Head(input).path
             current == IF path \in DOMAIN file_counts
                        THEN file_counts[path] ELSE 0
         IN  IF current > cap
             THEN LimitFromOffByOne(Tail(input), file_counts, cap)
             ELSE <<Head(input)>>
                  \o LimitFromOffByOne(Tail(input),
                               [p \in DOMAIN file_counts \cup {path} |->
                                   IF p = path THEN current + 1
                                   ELSE file_counts[p]],
                               cap)

RECURSIVE LimitFrom(_, _, _)
LimitFrom(input, file_counts, cap) ==
    IF input = <<>> THEN <<>>
    ELSE LET path == Head(input).path
             current == IF path \in DOMAIN file_counts
                        THEN file_counts[path] ELSE 0
         IN  IF current >= cap
             THEN LimitFrom(Tail(input), file_counts, cap)
             ELSE <<Head(input)>>
                  \o LimitFrom(Tail(input),
                               [p \in DOMAIN file_counts \cup {path} |->
                                   IF p = path THEN current + 1
                                   ELSE file_counts[p]],
                               cap)

LimitPerFile(input, cap) == LimitFrom(input, << >>, cap)

\* variant: the list is ranked before duplicates are removed
RankedUniqueSortFirst(input) == Dedup(SortIssues(FilterIssues(input)))

\* the locals of one apply_policy call
RankedUnique(input) == SortIssues(Dedup(FilterIssues(input)))

apply_policy(input, cfg) ==
    Take(LimitPerFile(RankedUnique(input), cfg.max_per_file), cfg.max_comments)

-----------------------------------------------------------------------------
(* review/llm.py *)

\* an exception object: its class and, for tenacity's RetryError, the
\* exception of the last attempt
Exc(type) == [type |-> type, last_attempt |-> NoneVal]

RetryError(type) == [type |-> "RetryError", last_attempt |-> Some(type)]

\* variant: only the direct rate-limit error is recognised
is_rate_limit_error_direct_only(exc) == exc.type = "RateLimitError"

is_rate_limit_error(exc) ==
    IF exc.type = "RateLimitError" THEN TRUE
    ELSE IF exc.type = "RetryError"
         THEN exc.last_attempt.some /\ exc.last_attempt.val = "RateLimitError"
         ELSE FALSE

\* what one get_completion call can raise: retry is declared with
\* reraise=True, so the exception of the last attempt is raised as it is
CompletionErrors ==
    { Exc("RateLimitError"), Exc("APIConnectionError"), Exc("APITimeoutError"),
      Exc("InternalServerError"), Exc("AuthenticationError"), Exc("ValueError") }

Raised(exc) == [raised |-> TRUE, exc |-> exc]

Returned(value) == [raised |-> FALSE, value |-> value]

\* the exception classes named in retry_if_exception_type
RetryableErrors ==
    {"RateLimitError", "APIConnectionError", "APITimeoutError",
     "InternalServerError"}

\* stop_after_attempt(3)
stop_after_attempt == 3

\* wait_exponential(multiplier=1, min=4, max=10); the base 2 is the
\* library's default
wait_multiplier == 1

wait_min == 4

wait_max == 10

exp_base == 2

\* the seconds tenacity sleeps after the failed attempt attempt_number:
\* multiplier * exp_base ** (attempt_number - 1), kept within [min, max]
wait_exponential(attempt_number) ==
    Max(Max(0, wait_min),
        Min(wait_multiplier * exp_base ^ (attempt_number - 1), wait_max))

\* variant: every exception is retried
retry_if_exception(outcome) == outcome.raised

\* the retry predicate: the attempt raised one of the named classes
retry_if_exception_type(outcome) ==
    outcome.raised /\ outcome.exc.type \in RetryableErrors

\* variant: without reraise, tenacity raises RetryError from the last error
retry_exhausted_wrapped(exc) == Raised(RetryError(exc.type))

\* reraise=True: when the attempts are used up the exception of the last
\* attempt is raised as it is
retry_exhausted(exc) == Raised(exc)

\* one execution of the body of get_completion: chat.completions.create
\* raises, or returns a message whose content is None or a text
get_completion_body(client_result) ==
    IF client_result.raised THEN client_result
    ELSE IF ~client_result.value.some THEN Raised(Exc("ValueError"))
         ELSE Returned(client_result.value.val)

AttemptEvent(outcome) == [kind |-> "attempt", outcome |-> outcome]

SleepEvent(seconds) == [kind |-> "sleep", seconds |-> seconds]

-----------------------------------------------------------------------------
(* review/analyzer.py: evidence and line ranges *)

DEFAULT_LINE_EXCERPT_MAX_CHARS == 200

DEFAULT_EXCERPT_MAX_CHARS == 500

DEFAULT_FALLBACK_HUNK_LINES == 5

\* ReviewAnalyzer(llm) as main.py builds it
line_excerpt_max_chars == Max(32, DEFAULT_LINE_EXCERPT_MAX_CHARS)

excerpt_max_chars == Max(line_excerpt_max_chars, DEFAULT_EXCERPT_MAX_CHARS)

fallback_hunk_lines == Max(1, DEFAULT_FALLBACK_HUNK_LINES)

\* "\n".join(lines)
RECURSIVE JoinLines(_)
JoinLines(lines) ==
    IF lines = <<>> THEN <<>>
    ELSE IF Len(lines) = 1 THEN lines[1]
         ELSE lines[1] \o <<"\n">> \o JoinLines(Tail(lines))

\* raw_line[:1] if raw_line else ""
Prefix(raw_line) == IF raw_line = <<>> THEN "" ELSE raw_line[1]

\* variant: a removed line advances the new-file line number too
RECURSIVE MatchedInHunkCountingRemoved(_, _, _, _)
MatchedInHunkCountingRemoved(lines, new_line, target_start, target_end) ==
    IF lines = <<>> THEN <<>>
    ELSE (IF /\ Prefix(Head(lines)) \in {"+", " "}
             /\ target_start <= new_line /\ new_line <= target_end
          THEN <<Take(Head(lines), line_excerpt_max_chars)>>
          ELSE <<>>)
         \o MatchedInHunkCountingRemoved(Tail(lines), new_line + 1,
                                         target_start, target_end)

\* the inner loop of _extract_diff_excerpt over one hunk's lines
RECURSIVE MatchedInHunk(_, _, _, _)
MatchedInHunk(lines, new_line, target_start, target_end) ==
    IF lines = <<>> THEN <<>>
    ELSE IF Prefix(Head(lines)) \in {"+", " "}
         THEN (IF target_start <= new_line /\ new_line <= target_end
               THEN <<Take(Head(lines), line_excerpt_max_chars)>>
               ELSE <<>>)
              \o MatchedInHunk(Tail(lines), new_line + 1, target_start,
                               target_end)
         ELSE MatchedInHunk(Tail(lines), new_line, target_start, target_end)

RECURSIVE MatchedInHunks(_, _, _)
MatchedInHunks(hunks, target_start, target_end) ==
    IF hunks = <<>> THEN <<>>
    ELSE MatchedInHunk(Head(hunks).lines, Head(hunks).new_start,
                       target_start, target_end)
         \o MatchedInHunks(Tail(hunks), target_start, target_end)

DiffPlaceholder ==
    <<"S", "e", "e", " ", "c", "h", "a", "n", "g", "e", "d", " ", "d", "i",
      "f", "f", " ", "c", "o", "n", "t", "e", "x", "t", ".">>

extract_diff_excerpt(file, line_start, line_end) ==
    LET target_start == Max(1, line_start)
        target_end == Max(target_start, line_end)
        matched_lines == MatchedInHunks(file.hunks, target_start, target_end)
        fallback == IF file.hunks = <<>> THEN <<>>
                    ELSE Strip(JoinLines(Take(file.hunks[1].lines,
                                              fallback_hunk_lines)))
    IN  IF matched_lines # <<>>
        THEN Take(JoinLines(matched_lines), excerpt_max_chars)
        ELSE IF fallback # <<>>
             THEN Take(fallback, excerpt_max_chars)
             ELSE DiffPlaceholder

\* variant: removed lines advance the line number too
RECURSIVE FirstAddedLineCountingRemoved(_, _)
FirstAddedLineCountingRemoved(lines, new_line) ==
    IF lines = <<>> THEN NoneVal
    ELSE IF Prefix(Head(lines)) = "+" THEN Some(Max(1, new_line))
         ELSE IF Prefix(Head(lines)) \in {"+", " ", "-"}
              THEN FirstAddedLineCountingRemoved(Tail(lines), new_line + 1)
              ELSE FirstAddedLineCountingRemoved(Tail(lines), new_line)

\* the inner loop of _find_default_line: the first added line of a hunk
RECURSIVE FirstAddedLine(_, _)
FirstAddedLine(lines, new_line) ==
    IF lines = <<>> THEN NoneVal
    ELSE IF Prefix(Head(lines)) = "+" THEN Some(Max(1, new_line))
         ELSE IF Prefix(Head(lines)) \in {"+", " "}
              THEN FirstAddedLine(Tail(lines), new_line + 1)
              ELSE FirstAddedLine(Tail(lines), new_line)

RECURSIVE FirstAddedInHunks(_)
FirstAddedInHunks(hunks) ==
    IF hunks = <<>> THEN NoneVal
    ELSE IF FirstAddedLine(Head(hunks).lines, Head(hunks).new_start).some
         THEN FirstAddedLine(Head(hunks).lines, Head(hunks).new_start)
         ELSE FirstAddedInHunks(Tail(hunks))

find_default_line(file) ==
    IF FirstAddedInHunks(file.hunks).some
    THEN FirstAddedInHunks(file.hunks).val
    ELSE IF file.hunks # <<>> THEN Max(1, file.hunks[1].new_start) ELSE 1

\* variant: the end of the range is taken as the candidate gives it
resolve_line_range_raw_end(file, candidate) ==
    LET default_line == find_default_line(file)
        raw_start == IF candidate.line_start.some
                     THEN candidate.line_start.val ELSE default_line
        raw_end == IF candidate.line_end.some
                   THEN candidate.line_end.val ELSE raw_start
    IN  <<Max(1, raw_start), raw_end>>

\* returns <<line_start, line_end>>
resolve_line_range(file, candidate) ==
    LET default_line == find_default_line(file)
        raw_start == IF candidate.line_start.some
                     THEN candidate.line_start.val ELSE default_line
        raw_end == IF candidate.line_end.some
                   THEN candidate.line_end.val ELSE raw_start
        line_start == Max(1, raw_start)
    IN  <<line_start, Max(line_start, raw_end)>>

DocsPlaceholder ==
    <<"S", "e", "e", " ", "p", "r", "o", "j", "e", "c", "t", " ", "d", "o",
      "c", "u", "m", "e", "n", "t", "a", "t", "i", "o", "n", ".">>

\* variant: an empty documentation excerpt is kept as it is
build_issue_evidence_raw(file, docs_evidence, line_start, line_end) ==
    IF docs_evidence # <<>>
    THEN [type |-> docs_evidence[1].type,
          source |-> docs_evidence[1].source,
          excerpt |-> Take(docs_evidence[1].excerpt, excerpt_max_chars)]
    ELSE [type |-> "DIFF",
          source |-> <<file.path, ":", Max(1, line_start)>>,
          excerpt |-> extract_diff_excerpt(file, line_start, line_end)]

\* _build_issue_evidence(file, docs_evidence, line_start, line_end)
build_issue_evidence(file, docs_evidence, line_start, line_end) ==
    IF docs_evidence # <<>>
    THEN [type |-> docs_evidence[1].type,
          source |-> docs_evidence[1].source,
          excerpt |-> Take(IF docs_evidence[1].excerpt # <<>>
                           THEN docs_evidence[1].excerpt
                           ELSE DocsPlaceholder, excerpt_max_chars)]
    ELSE [type |-> "DIFF",
          source |-> <<file.path, ":", Max(1, line_start)>>,
          excerpt |-> extract_diff_excerpt(file, line_start, line_end)]

-----------------------------------------------------------------------------
(* review/analyzer.py: review_file                                         *)
(* The model's text is kept as the JSON value the cleaned text denotes:    *)
(*   [json |-> FALSE]                      not valid JSON                  *)
(*   [json |-> TRUE, is_dict |-> FALSE]    a JSON value that is no object  *)
(*   [json |-> TRUE, is_dict |-> TRUE, ...] an object; a key that is       *)
(*                                          absent (or null) is NoneVal    *)

Category == {"STYLE", "ARCH", "BUG", "SECURITY", "PERF", "TESTING", "DOCS"}

NotJson == [json |-> FALSE]

JsonNonObject == [json |-> TRUE, is_dict |-> FALSE]

JsonNonList == [is_list |-> FALSE]

JsonList(items) == [is_list |-> TRUE, items |-> items]

\* LLMIssueCandidate.model_validate(raw_issue) succeeds
ValidCandidate(raw) ==
    /\ raw.is_dict
    /\ (raw.severity.some => raw.severity.val \in Severity)
    /\ (raw.category.some => raw.category.val \in Category)
    /\ (raw.confidence.some => raw.confidence.val \in 0..100)

OrDefault(opt, default) == IF opt.some THEN opt.val ELSE default

\* the LLMIssueCandidate of a valid raw issue: field defaults of domain.py
\* (the default id is a fresh "llm-<uuid>", kept as one atom)
Candidate(raw) ==
    [id |-> OrDefault(raw.id, "llm-uuid"),
     severity |-> OrDefault(raw.severity, "NIT"),
     category |-> OrDefault(raw.category, "STYLE"),
     title |-> OrDefault(raw.title, <<"I", "s", "s", "u", "e">>),
     message |-> OrDefault(raw.message, <<>>),
     line_start |-> raw.line_start,
     line_end |-> raw.line_end,
     suggestion |-> raw.suggestion,
     confidence |-> OrDefault(raw.confidence, 50)]

\* FocusedReviewResponse.model_validate_json(cleaned) succeeds
StrictFocusedOk(resp) ==
    /\ resp.json
    /\ resp.is_dict
    /\ (resp.issues.some =>
            /\ resp.issues.val.is_list
            /\ \A i \in 1..Len(resp.issues.val.items) :
                  ValidCandidate(resp.issues.val.items[i]))

RECURSIVE ValidCandidatesOf(_)
ValidCandidatesOf(items) ==
    IF items = <<>> THEN <<>>
    ELSE IF Head(items).is_dict /\ ValidCandidate(Head(items))
         THEN <<Candidate(Head(items))>> \o ValidCandidatesOf(Tail(items))
         ELSE ValidCandidatesOf(Tail(items))

\* issue_candidates of review_file: the strict parse, else the item by item
\* fallback; text that is not JSON makes review_file return []
issue_candidates(resp) ==
    IF StrictFocusedOk(resp)
    THEN IF resp.issues.some
         THEN [i \in 1..Len(resp.issues.val.items) |->
                  Candidate(resp.issues.val.items[i])]
         ELSE <<>>
    ELSE IF ~resp.json THEN <<>>
    ELSE IF resp.is_dict /\ resp.issues.some /\ resp.issues.val.is_list
         THEN ValidCandidatesOf(resp.issues.val.items)
         ELSE <<>>

IssueOf(file, docs_evidence, candidate) ==
    LET range == resolve_line_range(file, candidate)
    IN  [id |-> candidate.id, fingerprint |-> NoneVal,
         severity |-> candidate.severity, category |-> candidate.category,
         title |-> candidate.title, message |-> candidate.message,
         path |-> file.path, line_start |-> range[1], line_end |-> range[2],
         suggestion |-> candidate.suggestion,
         confidence |-> candidate.confidence,
         evidence |-> Some(build_issue_evidence(file, docs_evidence,
                                                range[1], range[2]))]

\* variant: every completion error is raised again
review_file_reraise_all(file, docs_evidence, completion) ==
    IF completion.raised
    THEN Raised(completion.exc)
    ELSE Returned([i \in 1..Len(issue_candidates(completion.value)) |->
                      IssueOf(file, docs_evidence,
                              issue_candidates(completion.value)[i])])

\* review_file(file, docs_evidence) when get_completion ends as completion
review_file(file, docs_evidence, completion) ==
    IF completion.raised
    THEN IF is_rate_limit_error(completion.exc)
         THEN Raised(completion.exc)
         ELSE Returned(<<>>)
    ELSE Returned([i \in 1..Len(issue_candidates(completion.value)) |->
                      IssueOf(file, docs_evidence,
                              issue_candidates(completion.value)[i])])

-----------------------------------------------------------------------------
(* review/analyzer.py: triage *)

BudgetLow == <<"l", "o", "w">>

BudgetNormal == <<"n", "o", "r", "m", "a", "l">>

BudgetHigh == <<"h", "i", "g", "h">>

TriageBudget == {BudgetLow, BudgetNormal, BudgetHigh}

parse_budget(value) ==
    IF value.some /\ Lower(Strip(value.val)) \in TriageBudget
    THEN Lower(Strip(value.val))
    ELSE BudgetNormal

\* a JSON list of strings, or absent
StrListOk(opt) ==
    opt.some =>
        /\ opt.val.is_list
        /\ \A i \in 1..Len(opt.val.items) : opt.val.items[i].is_str

\* [str(item) for item in raw] if isinstance(raw, list) else []
StrItems(opt) ==
    IF opt.some /\ opt.val.is_list
    THEN [i \in 1..Len(opt.val.items) |-> opt.val.items[i].text]
    ELSE <<>>

\* TriagePlan.model_validate_json(cleaned) succeeds
StrictTriageOk(resp) ==
    /\ resp.json
    /\ resp.is_dict
    /\ StrListOk(resp.files_to_review)
    /\ StrListOk(resp.focus_areas)
    /\ (resp.budget.some => resp.budget.val \in TriageBudget)

\* plan.model_dump(mode="json") of the strictly validated plan
StrictTriagePlan(resp) ==
    [files_to_review |-> StrItems(resp.files_to_review),
     focus_areas |-> StrItems(resp.focus_areas),
     budget |-> OrDefault(resp.budget, BudgetNormal),
     summary |-> resp.summary]

\* variant: a value that is not an object gives a low-budget plan
coerce_triage_plan_low_default(data) ==
    IF ~data.is_dict
    THEN [files_to_review |-> <<>>, focus_areas |-> <<>>,
          budget |-> BudgetLow, summary |-> NoneVal]
    ELSE [files_to_review |-> StrItems(data.files_to_review),
          focus_areas |-> StrItems(data.focus_areas),
          budget |-> parse_budget(data.budget),
          summary |-> data.summary]

\* _coerce_triage_plan(data).model_dump(mode="json")
coerce_triage_plan(data) ==
    IF ~data.is_dict
    THEN [files_to_review |-> <<>>, focus_areas |-> <<>>,
          budget |-> BudgetNormal, summary |-> NoneVal]
    ELSE [files_to_review |-> StrItems(data.files_to_review),
          focus_areas |-> StrItems(data.focus_areas),
          budget |-> parse_budget(data.budget),
          summary |-> data.summary]

RateLimitSummary ==
    <<"LLM rate limit reached. Focused review skipped. ",
      "Retry later or increase model quota.">>

PathsOfFiles(files) == [i \in 1..Len(files) |-> files[i].path]

\* variant: a rate limit is handled like any other request error
triage_fail_open_always(files, completion) ==
    IF completion.raised
    THEN Returned([files_to_review |-> PathsOfFiles(files)])
    ELSE IF StrictTriageOk(completion.value)
         THEN Returned(StrictTriagePlan(completion.value))
         ELSE IF ~completion.value.json
              THEN Raised(Exc("JSONDecodeError"))
              ELSE Returned(coerce_triage_plan(completion.value))

\* triage(filter_result, pr_meta) when get_completion ends as completion.
\* Text that is not JSON fails model_validate_json with a ValidationError;
\* the handler's SafeJSONParser.parse then raises JSONDecodeError, which no
\* handler of triage catches.
triage(files, completion) ==
    IF completion.raised
    THEN IF is_rate_limit_error(completion.exc)
         THEN Returned([files_to_review |-> <<>>, focus_areas |-> <<>>,
                        budget |-> BudgetLow,
                        summary |-> Some(RateLimitSummary)])
         ELSE Returned([files_to_review |-> PathsOfFiles(files)])
    ELSE IF StrictTriageOk(completion.value)
         THEN Returned(StrictTriagePlan(completion.value))
         ELSE IF ~completion.value.json
              THEN Raised(Exc("JSONDecodeError"))
              ELSE Returned(coerce_triage_plan(completion.value))

-----------------------------------------------------------------------------
(* The Issue objects a caller of apply_policy may pass (SpecPolicy).       *)
(* rule_id and position are never set or read by the pipeline and are left *)
(* out.  Every record is a value the Issue model of domain.py accepts.     *)

TitleA == <<"A">>

TitleAPadded == <<"a", " ">>

TitleB == <<"b">>

BlankText == <<" ">>

MessageM == <<"m">>

MessageN == <<"n">>

GoodSuggestion == <<"f", "i", "x", " ", "c", "o", "d", "e">>

ShortSuggestion == <<"f", "i", "x">>

PaddedSuggestion == <<" ", "f", "i", "x", " ", "i", "t", "!", " ">>

DiffEvidence(path, line) ==
    Some([type |-> "DIFF", source |-> <<path, ":", line>>,
          excerpt |-> <<"+", "x">>])

EmptyEvidence(path, line) ==
    Some([type |-> "DIFF", source |-> <<path, ":", line>>, excerpt |-> <<>>])

MkIssue(id, sev, conf, path, ls, le, title, msg, sugg, ev) ==
    [id |-> id, fingerprint |-> NoneVal, severity |-> sev,
     category |-> "BUG", title |-> title, message |-> msg, path |-> path,
     line_start |-> ls, line_end |-> le, evidence |-> ev,
     suggestion |-> sugg, confidence |-> conf]

IssueUniverse ==
    { \* confidence at and just below the threshold of each severity
      MkIssue("u1", "BLOCKER", 90, "a", 1, 1, TitleA, MessageM,
              Some(GoodSuggestion), DiffEvidence("a", 1)),
      MkIssue("u2", "BLOCKER", 89, "a", 1, 1, TitleB, MessageM,
              Some(GoodSuggestion), DiffEvidence("a", 1)),
      MkIssue("u3", "IMPORTANT", 85, "a", 1, 1, TitleA, MessageM,
              Some(GoodSuggestion), DiffEvidence("a", 1)),
      MkIssue("u4", "IMPORTANT", 84, "b", 1, 1, TitleA, MessageM,
              Some(GoodSuggestion), DiffEvidence("b", 1)),
      MkIssue("u5", "QUESTION", 70, "a", 1, 1, TitleA, MessageM,
              NoneVal, DiffEvidence("a", 1)),
      MkIssue("u6", "QUESTION", 69, "a", 1, 1, TitleB, MessageM,
              NoneVal, DiffEvidence("a", 1)),
      MkIssue("u7", "NIT", 75, "b", 1, 1, TitleA, MessageM,
              Some(ShortSuggestion), DiffEvidence("b", 1)),
      MkIssue("u8", "NIT", 74, "b", 1, 1, TitleB, MessageM,
              NoneVal, DiffEvidence("b", 1)),
      \* same semantic key as u5, other id, title spelling, message, confidence
      MkIssue("u9", "QUESTION", 80, "a", 1, 1, TitleAPadded, MessageN,
              NoneVal, DiffEvidence("a", 1)),
      \* same sort key as u9, other path / other line
      MkIssue("u10", "QUESTION", 80, "b", 1, 1, TitleB, MessageM,
              NoneVal, DiffEvidence("b", 1)),
      MkIssue("u11", "QUESTION", 80, "a", 2, 2, TitleA, MessageM,
              NoneVal, DiffEvidence("a", 2)),
      \* high severity without a usable suggestion
      MkIssue("u12", "IMPORTANT", 95, "a", 1, 1, TitleB, MessageM,
              Some(ShortSuggestion), DiffEvidence("a", 1)),
      MkIssue("u13", "BLOCKER", 95, "b", 1, 1, TitleA, MessageM,
              NoneVal, DiffEvidence("b", 1)),
      MkIssue("u14", "IMPORTANT", 95, "b", 1, 1, TitleB, MessageM,
              Some(PaddedSuggestion), DiffEvidence("b", 1)),
      \* evidence, title and message gates
      MkIssue("u15", "QUESTION", 90, "a", 1, 1, TitleB, MessageM,
              NoneVal, NoneVal),
      MkIssue("u16", "NIT", 90, "a", 1, 1, TitleB, MessageM,
              NoneVal, EmptyEvidence("a", 1)),
      MkIssue("u17", "QUESTION", 90, "b", 1, 1, BlankText, MessageM,
              NoneVal, DiffEvidence("b", 1)),
      MkIssue("u18", "NIT", 90, "b", 1, 1, TitleA, BlankText,
              NoneVal, DiffEvidence("b", 1)),
      \* differs from u1 in line_end only, from u3 in severity only
      MkIssue("u19", "BLOCKER", 95, "a", 1, 2, TitleA, MessageM,
              Some(GoodSuggestion), DiffEvidence("a", 1)),
      MkIssue("u20", "NIT", 90, "a", 1, 1, TitleA, MessageM,
              Some(GoodSuggestion), DiffEvidence("a", 1)),
      \* same semantic key as u5 and u9, highest confidence, no evidence
      MkIssue("u21", "QUESTION", 95, "a", 1, 1, TitleA, MessageM,
              NoneVal, NoneVal) }

\* PolicyManager(max_comments, max_per_file): the defaults and smaller caps
PolicyConfigs ==
    { [max_comments |-> DEFAULT_MAX_COMMENTS, max_per_file |-> DEFAULT_MAX_PER_FILE],
      [max_comments |-> 2, max_per_file |-> DEFAULT_MAX_PER_FILE],
      [max_comments |-> 1, max_per_file |-> 1] }

Config == [max_comments |-> max_comments, max_per_file |-> max_per_file]

-----------------------------------------------------------------------------
(* SpecPolicy: a caller builds a list, calls apply_policy, and calls it    *)
(* again on the list it got back.                                          *)

IdleRun ==
    /\ filter_files = <<>>
    /\ triage_plan = NoneVal
    /\ files_to_review_paths = <<>>
    /\ file_idx = 0
    /\ all_issues = <<>>
    /\ rate_limit_reached = FALSE
    /\ files_reviewed_count = 0
    /\ review_log = <<>>
    /\ llm_log = <<>>
    /\ result = NoneVal

\* no unit call has been made
IdleCalls ==
    /\ fn = "none"
    /\ args = NoneVal
    /\ ret = NoneVal

InitPolicy ==
    /\ pc = "build"
    /\ \E cfg \in PolicyConfigs :
          /\ max_comments = cfg.max_comments
          /\ max_per_file = cfg.max_per_file
    /\ issues = <<>>
    /\ unique_issues = <<>>
    /\ limited_issues = <<>>
    /\ final_issues = <<>>
    /\ calls = 0
    /\ IdleRun
    /\ IdleCalls

\* the caller appends one more Issue to the list it will pass
AddIssue ==
    /\ pc = "build"
    /\ Len(issues) < MaxIssues
    /\ \E u \in IssueUniverse : issues' = Append(issues, u)
    /\ UNCHANGED <<pc, max_comments, max_per_file, unique_issues,
                   limited_issues, final_issues, calls>>
    /\ UNCHANGED runVars
    /\ UNCHANGED callVars

\* one whole call apply_policy(input); its locals are recorded
RunApplyPolicy(input) ==
    /\ issues' = input
    /\ unique_issues' = RankedUnique(input)
    /\ limited_issues' = LimitPerFile(RankedUnique(input), max_per_file)
    /\ final_issues' = apply_policy(input, Config)
    /\ calls' = calls + 1

CallApplyPolicy ==
    /\ pc = "build"
    /\ RunApplyPolicy(issues)
    /\ pc' = "applied"
    /\ UNCHANGED <<max_comments, max_per_file>>
    /\ UNCHANGED runVars
    /\ UNCHANGED callVars

\* apply_policy(apply_policy(L)): the returned list is passed back in
ReapplyPolicy ==
    /\ pc = "applied"
    /\ RunApplyPolicy(final_issues)
    /\ pc' = "reapplied"
    /\ UNCHANGED <<max_comments, max_per_file>>
    /\ UNCHANGED runVars
    /\ UNCHANGED callVars

NextPolicy == AddIssue \/ CallApplyPolicy \/ ReapplyPolicy

SpecPolicy == InitPolicy /\ [][NextPolicy]_vars

-----------------------------------------------------------------------------
(* Spec: one run of main.review.  The forge client, the file filter, the   *)
(* document retriever and the model are collaborators: the changed files   *)
(* they deliver and the outcome of every completion call are inputs.       *)

Hunk(new_start, lines) == [new_start |-> new_start, lines |-> lines]

ChangedFile(path, hunks) == [path |-> path, hunks |-> hunks]

\* the file of tests/test_flow.py: "@@ -1,3 +1,4 @@"
FileA ==
    ChangedFile("a",
        <<Hunk(1, << <<" ", "l", "i", "n", "e", "1">>,
                     <<"-", "l", "i", "n", "e", "2">>,
                     <<"+", "l", "i", "n", "e", "2", "_", "n", "e", "w">>,
                     <<"+", "l", "i", "n", "e", "3", "_", "n", "e", "w">> >>)>>)

\* a file without patch text
FileB == ChangedFile("b", <<>>)

FileC ==
    ChangedFile("c", <<Hunk(5, << <<"-", "o", "l", "d">>,
                                  <<"+", "n", "e", "w">> >>)>>)

FileD == ChangedFile("d", <<Hunk(7, << <<" ", "k", "e", "p", "t">> >>)>>)

AllFiles == <<FileA, FileB, FileC, FileD>>

\* filter_result.files_to_review: the first n changed files
FilterChoices == {Take(AllFiles, n) : n \in 0..MaxFiles}

\* a path the model may name that is not in the change set
UnknownPath == "x"

\* the path of a changed file that the default ignore patterns exclude
ExcludedPath == "package-lock.json"

RECURSIVE SeqsUpTo(_, _)
SeqsUpTo(S, n) ==
    IF n = 0 THEN {<<>>}
    ELSE SeqsUpTo(S, n - 1)
         \cup {Append(q, x) : q \in {r \in SeqsUpTo(S, n - 1) : Len(r) = n - 1},
                              x \in S}

StrItem(text) == [is_str |-> TRUE, text |-> text]

TriageObject(files, budget, summary) ==
    [json |-> TRUE, is_dict |-> TRUE, files_to_review |-> files,
     focus_areas |-> NoneVal, budget |-> budget, summary |-> summary]

SummaryOk == <<"o", "k">>

\* the triage texts the model may return
TriageResponses(files) ==
    { TriageObject(Some(JsonList([i \in 1..Len(q) |-> StrItem(q[i])])),
                   NoneVal, NoneVal) :
        q \in SeqsUpTo(Range(PathsOfFiles(files)) \cup {UnknownPath}, MaxPlan) }
    \cup
    { NotJson, JsonNonObject,
      TriageObject(NoneVal, NoneVal, NoneVal),
      TriageObject(Some(JsonNonList), Some(BudgetHigh), Some(SummaryOk)),
      TriageObject(Some(JsonList(<<StrItem("a")>>)), Some(BudgetHigh),
                   Some(SummaryOk)),
      TriageObject(Some(JsonList(<<StrItem(ExcludedPath), StrItem("a"),
                                   StrItem("a")>>)), NoneVal, NoneVal),
      TriageObject(Some(JsonList(<<StrItem("a"), StrItem("b")>>)),
                   Some(<<"H", "I", "G", "H", " ">>), Some(BlankText)),
      TriageObject(Some(JsonList(<<[is_str |-> FALSE, text |-> "7"],
                                   StrItem("b")>>)),
                   Some(<<"u", "r", "g", "e", "n", "t">>), NoneVal) }

RawIssue(id, sev, cat, title, msg, ls, le, sugg, conf) ==
    [is_dict |-> TRUE, id |-> id, severity |-> sev, category |-> cat,
     title |-> title, message |-> msg, line_start |-> ls, line_end |-> le,
     suggestion |-> sugg, confidence |-> conf]

\* the candidate of tests/test_flow.py
RawTestIssue ==
    RawIssue(Some("issue-1"), Some("IMPORTANT"), Some("BUG"),
             Some(<<"P", "o", "t", "e", "n", "t", "i", "a", "l", " ",
                    "b", "u", "g">>),
             Some(<<"Check null handling.">>), Some(3), Some(3), NoneVal,
             Some(90))

RawQuestion ==
    RawIssue(Some("issue-2"), Some("QUESTION"), Some("STYLE"), Some(TitleA),
             Some(MessageM), NoneVal, NoneVal, NoneVal, Some(80))

RawBlocker ==
    RawIssue(Some("issue-3"), Some("BLOCKER"), Some("SECURITY"), Some(TitleB),
             Some(MessageM), Some(2), Some(2), Some(GoodSuggestion), Some(95))

RawDefaults ==
    RawIssue(NoneVal, NoneVal, NoneVal, NoneVal, NoneVal, NoneVal, NoneVal,
             NoneVal, NoneVal)

RawLowerCaseSeverity ==
    RawIssue(Some("issue-4"), Some("blocker"), Some("BUG"), Some(TitleA),
             Some(MessageM), Some(1), Some(1), Some(GoodSuggestion), Some(95))

FocusedObject(issue_list) ==
    [json |-> TRUE, is_dict |-> TRUE, issues |-> issue_list]

\* the focused-review texts the model may return
ReviewResponses ==
    { NotJson, JsonNonObject,
      FocusedObject(NoneVal),
      FocusedObject(Some(JsonNonList)),
      FocusedObject(Some(JsonList(<<>>))),
      FocusedObject(Some(JsonList(<<RawTestIssue>>))),
      FocusedObject(Some(JsonList(<<RawQuestion>>))),
      FocusedObject(Some(JsonList(<<RawBlocker>>))),
      FocusedObject(Some(JsonList(<<RawLowerCaseSeverity, RawBlocker>>))),
      FocusedObject(Some(JsonList(<<RawDefaults, [is_dict |-> FALSE]>>))) }

\* get_completion ends by raising or by returning text
Completions(responses) ==
    {Raised(e) : e \in CompletionErrors} \cup {Returned(r) : r \in responses}

DocEvidence ==
    [type |-> "DOC", source |-> <<"docs/standards.md">>,
     excerpt |->
       <<"s", "t", "a", "n", "d", "a", "r", "d", "s", " ", "f", "o", "r", " ",
         "r", "e", "v", "i", "e", "w", ".", ".", ".">>]

\* retriever.retrieve_relevant_docs(...): nothing indexed, or one match
DocsChoices == {<<>>, <<DocEvidence>>}

\* dict.get(key, default)
Get(dict, key, default) == IF key \in DOMAIN dict THEN dict[key] ELSE default

PartialNotice ==
    " Partial review only: stopped early due to LLM rate limits."

Init ==
    /\ pc = "triage"
    /\ max_comments = DEFAULT_MAX_COMMENTS
    /\ max_per_file = DEFAULT_MAX_PER_FILE
    /\ issues = <<>>
    /\ unique_issues = <<>>
    /\ limited_issues = <<>>
    /\ final_issues = <<>>
    /\ calls = 0
    /\ filter_files \in FilterChoices
    /\ triage_plan = NoneVal
    /\ files_to_review_paths = <<>>
    /\ file_idx = 0
    /\ all_issues = <<>>
    /\ rate_limit_reached = FALSE
    /\ files_reviewed_count = 0
    /\ review_log = <<>>
    /\ llm_log = <<>>
    /\ result = NoneVal
    /\ IdleCalls

\* history of the completion calls: the caller and the exception, if any
LogEntry(call, completion) ==
    [call |-> call, raised |-> completion.raised,
     exc |-> IF completion.raised THEN Some(completion.exc) ELSE NoneVal]

\* where the for loop stands after the file at position idx
AfterFile(idx) == IF idx >= Len(filter_files) THEN "policy" ELSE "review"

\* main.py 142-156: the triage call and the locals set up before the loop;
\* an exception of triage is not caught and ends the command
Triage ==
    /\ pc = "triage"
    /\ \E completion \in Completions(TriageResponses(filter_files)) :
          LET outcome == triage(filter_files, completion)
          IN  /\ llm_log' = Append(llm_log, LogEntry("triage", completion))
              /\ IF outcome.raised
                 THEN /\ pc' = "crashed"
                      /\ UNCHANGED <<triage_plan, files_to_review_paths>>
                 ELSE /\ pc' = AfterFile(0)
                      /\ triage_plan' = outcome.value
                      /\ files_to_review_paths'
                            = Get(outcome.value, "files_to_review", <<>>)
    /\ UNCHANGED <<max_comments, max_per_file, filter_files, file_idx,
                   all_issues, rate_limit_reached, files_reviewed_count,
                   review_log, result>>
    /\ UNCHANGED policyVars
    /\ UNCHANGED callVars

\* variant: every file of the filter result is taken as selected
InPlanAlways(file) == TRUE

\* "file.path in files_to_review_paths"
InPlan(file) == file.path \in Range(files_to_review_paths)

\* main.py 157-158: a file whose path the plan does not name is passed over
SkipFile ==
    /\ pc = "review"
    /\ ~InPlan(filter_files[file_idx + 1])
    /\ file_idx' = file_idx + 1
    /\ pc' = AfterFile(file_idx + 1)
    /\ UNCHANGED <<max_comments, max_per_file, filter_files, triage_plan,
                   files_to_review_paths, all_issues, rate_limit_reached,
                   files_reviewed_count, review_log, llm_log, result>>
    /\ UNCHANGED policyVars
    /\ UNCHANGED callVars

\* variant: the issues of a file are put in front of the list
ExtendAtFront(all, file_issues) == file_issues \o all

\* all_issues.extend(file_issues)
Extend(all, file_issues) == all \o file_issues

\* main.py 157-175: one iteration of the loop for a file the plan names
ReviewFile ==
    /\ pc = "review"
    /\ InPlan(filter_files[file_idx + 1])
    /\ \E evidence \in DocsChoices : \E completion \in Completions(ReviewResponses) :
          LET file == filter_files[file_idx + 1]
              outcome == review_file(file, evidence, completion)
          IN  /\ llm_log' = Append(llm_log, LogEntry(file.path, completion))
              /\ review_log' = Append(review_log,
                    [path |-> file.path, raised |-> outcome.raised,
                     issues |-> IF outcome.raised THEN <<>>
                                ELSE outcome.value])
              /\ IF outcome.raised
                 THEN IF is_rate_limit_error(outcome.exc)
                      THEN /\ rate_limit_reached' = TRUE
                           /\ pc' = "policy"
                           /\ UNCHANGED <<file_idx, files_reviewed_count,
                                          all_issues>>
                      ELSE /\ pc' = "crashed"
                           /\ UNCHANGED <<file_idx, files_reviewed_count,
                                          all_issues, rate_limit_reached>>
                 ELSE /\ files_reviewed_count' = files_reviewed_count + 1
                      /\ all_issues' = Extend(all_issues, outcome.value)
                      /\ file_idx' = file_idx + 1
                      /\ pc' = AfterFile(file_idx + 1)
                      /\ UNCHANGED rate_limit_reached
    /\ UNCHANGED <<max_comments, max_per_file, filter_files, triage_plan,
                   files_to_review_paths, result>>
    /\ UNCHANGED policyVars
    /\ UNCHANGED callVars

\* main.py 184-190
Decision(final) ==
    IF \E i \in 1..Len(final) : final[i].severity \in {"BLOCKER", "IMPORTANT"}
    THEN "WARN" ELSE "PASS"

\* variant: the notice is added to the default template only
SummaryTextNoticeOnDefault(triage_summary, reviewed_count, final, rate_limited) ==
    IF triage_summary.some /\ Strip(triage_summary.val) # <<>>
    THEN Strip(triage_summary.val)
    ELSE <<"Reviewed ", ToString(reviewed_count), " files. Found ",
           ToString(Len(final)), " issues.">>
         \o (IF rate_limited THEN <<PartialNotice>> ELSE <<>>)

\* main.py 198-206
SummaryText(triage_summary, reviewed_count, final, rate_limited) ==
    (IF triage_summary.some /\ Strip(triage_summary.val) # <<>>
     THEN Strip(triage_summary.val)
     ELSE <<"Reviewed ", ToString(reviewed_count), " files. Found ",
            ToString(Len(final)), " issues.">>)
    \o (IF rate_limited THEN <<PartialNotice>> ELSE <<>>)

\* main.py 177-216: the policy step, the decision and the ReviewResult
Finish ==
    /\ pc = "policy"
    /\ RunApplyPolicy(all_issues)
    /\ result' =
          Some([summary |-> SummaryText(Get(triage_plan, "summary", NoneVal),
                                        files_reviewed_count,
                                        apply_policy(all_issues, Config),
                                        rate_limit_reached),
                issues |-> apply_policy(all_issues, Config),
                files_analyzed |-> files_reviewed_count,
                decision |-> Decision(apply_policy(all_issues, Config))])
    /\ pc' = "done"
    /\ UNCHANGED <<max_comments, max_per_file, filter_files, triage_plan,
                   files_to_review_paths, file_idx, all_issues,
                   rate_limit_reached, files_reviewed_count, review_log,
                   llm_log>>
    /\ UNCHANGED callVars

Next == Triage \/ SkipFile \/ ReviewFile \/ Finish

Spec == Init /\ [][Next]_vars

-----------------------------------------------------------------------------
(* safety/utils.py: SafeJSONParser *)

\* the positions at which a line boundary "\n", "\r" or "\r\n" ends
BreakEnds(text) ==
    {i \in 1..Len(text) :
        \/ text[i] = "\n"
        \/ text[i] = "\r" /\ ~(i < Len(text) /\ text[i + 1] = "\n")}

\* the position at which the line boundary ending at i starts
BreakStart(text, i) ==
    IF text[i] = "\n" /\ i > 1 /\ text[i - 1] = "\r" THEN i - 1 ELSE i

\* str.splitlines(): the text between line boundaries, and what follows the
\* last boundary unless that is empty
SplitLines(text) ==
    LET ends == BreakEnds(text)
        n == Cardinality(ends)
        nth(k) == CHOOSE i \in ends : Cardinality({j \in ends : j < i}) = k - 1
        first(k) == IF k = 1 THEN 1 ELSE nth(k - 1) + 1
    IN  [k \in 1..n |->
            SubSeq(text, first(k), BreakStart(text, nth(k)) - 1)]
        \o (IF first(n + 1) <= Len(text)
            THEN <<SubSeq(text, first(n + 1), Len(text))>>
            ELSE <<>>)

\* str.startswith(prefix)
StartsWith(s, prefix) ==
    Len(s) >= Len(prefix) /\ SubSeq(s, 1, Len(prefix)) = prefix

\* the character U+0060, which a TLA+ string cannot hold
Backtick == "grave"

Fence == <<Backtick, Backtick, Backtick>>

\* _strip_markdown_fences(text)
strip_markdown_fences(text) ==
    Strip(JoinLines(SelectSeq(SplitLines(text),
                              LAMBDA line : ~StartsWith(Strip(line), Fence))))

\* str.find(c) + 1: the first position of c in text, 0 when there is none
Find(text, c) ==
    IF \E i \in 1..Len(text) : text[i] = c
    THEN CHOOSE i \in 1..Len(text) :
            text[i] = c /\ \A j \in 1..(i - 1) : text[j] # c
    ELSE 0

\* the loop state of _extract_first_json_payload before the first character;
\* end is the position at which the loop returned, 0 while it runs
ScanStart ==
    [depth |-> 0, in_string |-> FALSE, is_escaped |-> FALSE, end |-> 0]

\* the body of the for loop of _extract_first_json_payload at payload[index]
ScanStep(st, payload, index, opening, closing) ==
    LET char == payload[index]
    IN  IF st.end > 0 THEN st
        ELSE IF st.in_string
             THEN IF st.is_escaped THEN [st EXCEPT !.is_escaped = FALSE]
                  ELSE IF char = "\\" THEN [st EXCEPT !.is_escaped = TRUE]
                  ELSE IF char = "\"" THEN [st EXCEPT !.in_string = FALSE]
                  ELSE st
             ELSE IF char = "\"" THEN [st EXCEPT !.in_string = TRUE]
             ELSE IF char = opening THEN [st EXCEPT !.depth = @ + 1]
             ELSE IF char = closing
                  THEN [st EXCEPT !.depth = @ - 1,
                                  !.end = IF st.depth - 1 = 0 THEN index
                                          ELSE 0]
                  ELSE st

\* the for loop over payload[lo..hi], run as its first and its second half
RECURSIVE ScanRange(_, _, _, _, _, _)
ScanRange(st, payload, lo, hi, opening, closing) ==
    IF lo > hi THEN st
    ELSE IF lo = hi THEN ScanStep(st, payload, lo, opening, closing)
    ELSE LET mid == (lo + hi) \div 2
             half == ScanRange(st, payload, lo, mid, opening, closing)
         IN  IF half.end > 0 THEN half
             ELSE ScanRange(half, payload, mid + 1, hi, opening, closing)

\* the position at which the loop returns, 0 when it runs out
ScanPayload(payload, opening, closing) ==
    ScanRange(ScanStart, payload, 1, Len(payload), opening, closing).end

\* variant: quotation marks are not tracked
extract_first_json_payload_no_strings(text) ==
    LET starts == {Find(text, "{"), Find(text, "[")} \ {0}
    IN  IF starts = {} THEN Strip(text)
        ELSE LET start_idx == CHOOSE i \in starts : \A j \in starts : i <= j
                 payload == SubSeq(text, start_idx, Len(text))
                 opening == payload[1]
                 closing == IF opening = "{" THEN "}" ELSE "]"
                 noquote == [i \in 1..Len(payload) |->
                               IF payload[i] = "\"" THEN "q" ELSE payload[i]]
                 end == ScanPayload(noquote, opening, closing)
             IN  IF end > 0 THEN Strip(Take(payload, end))
                 ELSE Strip(payload)

\* _extract_first_json_payload(text)
extract_first_json_payload(text) ==
    LET starts == {Find(text, "{"), Find(text, "[")} \ {0}
    IN  IF starts = {} THEN Strip(text)
        ELSE LET start_idx == CHOOSE i \in starts : \A j \in starts : i <= j
                 payload == SubSeq(text, start_idx, Len(text))
                 opening == payload[1]
                 closing == IF opening = "{" THEN "}" ELSE "]"
                 end == ScanPayload(payload, opening, closing)
             IN  IF end > 0 THEN Strip(Take(payload, end))
                 ELSE Strip(payload)

\* clean_json_text(text)
clean_json_text(text) ==
    LET base == Strip(text)
    IN  IF base = <<>> THEN <<>>
        ELSE extract_first_json_payload(strip_markdown_fences(base))

-----------------------------------------------------------------------------
(* providers/github_provider.py: _parse_patch *)

\* str.split(sep) for a one-character sep: the text between separators,
\* empty pieces included
SplitOn(text, sep) ==
    LET seps == {i \in 1..Len(text) : text[i] = sep}
        n == Cardinality(seps)
        nth(k) == CHOOSE i \in seps : Cardinality({j \in seps : j < i}) = k - 1
        first(k) == IF k = 1 THEN 1 ELSE nth(k - 1) + 1
        last(k) == IF k = n + 1 THEN Len(text) ELSE nth(k) - 1
    IN  [k \in 1..(n + 1) |-> SubSeq(text, first(k), last(k))]

DigitChars == <<"0", "1", "2", "3", "4", "5", "6", "7", "8", "9">>

IsDigit(c) == \E d \in 1..10 : DigitChars[d] = c

\* int(digits) for a non-empty run of digits
RECURSIVE ToInt(_)
ToInt(digits) ==
    IF digits = <<>> THEN 0
    ELSE 10 * ToInt(Front(digits))
         + (CHOOSE d \in 0..9 : DigitChars[d + 1] = Last(digits))

\* the literal lit stands in line at position pos
LitAt(line, pos, lit) ==
    /\ pos + Len(lit) - 1 <= Len(line)
    /\ SubSeq(line, pos, pos + Len(lit) - 1) = lit

\* \d+ from position pos: the last position of the run of digits that
\* starts at pos, pos - 1 when there is no digit at pos
DigitsEnd(line, pos) ==
    IF pos > Len(line) THEN pos - 1
    ELSE CHOOSE k \in (pos - 1)..Len(line) :
            /\ \A j \in pos..k : IsDigit(line[j])
            /\ k = Len(line) \/ ~IsDigit(line[k + 1])

\* (?:,(\d+))? at position pos: the last position it takes, pos - 1 when the
\* group does not take part in the match
LengthEnd(line, pos) ==
    IF LitAt(line, pos, <<",">>) /\ DigitsEnd(line, pos + 1) >= pos + 1
    THEN DigitsEnd(line, pos + 1)
    ELSE pos - 1

\* hunk_header_re.match(line): the four groups (an absent group is None),
\* or None when the line does not start with a hunk header
hunk_header_match(line) ==
    LET e1 == DigitsEnd(line, 5)
        e2 == LengthEnd(line, e1 + 1)
        e3 == DigitsEnd(line, e2 + 3)
        e4 == LengthEnd(line, e3 + 1)
        group(from, to) ==
            IF to < from THEN NoneVal ELSE Some(SubSeq(line, from, to))
    IN  IF /\ LitAt(line, 1, <<"@", "@", " ", "-">>)
           /\ e1 >= 5
           /\ LitAt(line, e2 + 1, <<" ", "+">>)
           /\ e3 >= e2 + 3
           /\ LitAt(line, e4 + 1, <<" ", "@", "@">>)
        THEN Some([g1 |-> Some(SubSeq(line, 5, e1)),
                   g2 |-> group(e1 + 2, e2),
                   g3 |-> Some(SubSeq(line, e2 + 3, e3)),
                   g4 |-> group(e3 + 2, e4)])
        ELSE NoneVal

\* variant: a missing length is 0
LengthOfGroup0(group) == IF group.some THEN ToInt(group.val) ELSE 0

\* int(match.group(k)) if match.group(k) else 1
LengthOfGroup(group) == IF group.some THEN ToInt(group.val) ELSE 1

\* DiffHunk(header=line, lines=[], ...) of a matched header line
DiffHunk(line, match) ==
    [header |-> line, lines |-> <<>>,
     old_start |-> ToInt(match.g1.val), new_start |-> ToInt(match.g3.val),
     old_lines |-> LengthOfGroup(match.g2),
     new_lines |-> LengthOfGroup(match.g4)]

\* current_hunk.lines = current_lines; hunks.append(current_hunk), when
\* there is a current hunk
Flush(hunks, current_hunk, current_lines) ==
    IF current_hunk.some
    THEN Append(hunks, [current_hunk.val EXCEPT !.lines = current_lines])
    ELSE hunks

\* the for loop of _parse_patch over the lines left, and what follows it
RECURSIVE ParsePatchLoop(_, _, _, _)
ParsePatchLoop(lines, hunks, current_hunk, current_lines) ==
    IF lines = <<>> THEN Flush(hunks, current_hunk, current_lines)
    ELSE LET line == Head(lines)
             match == hunk_header_match(line)
         IN  IF match.some
             THEN ParsePatchLoop(Tail(lines),
                                 Flush(hunks, current_hunk, current_lines),
                                 Some(DiffHunk(line, match.val)), <<>>)
             ELSE IF current_hunk.some
                  THEN ParsePatchLoop(Tail(lines), hunks, current_hunk,
                                      Append(current_lines, line))
                  ELSE ParsePatchLoop(Tail(lines), hunks, current_hunk,
                                      current_lines)

\* _parse_patch(patch)
parse_patch(patch) ==
    IF patch = <<>> THEN <<>>
    ELSE ParsePatchLoop(SplitOn(patch, "\n"), <<>>, NoneVal, <<>>)

-----------------------------------------------------------------------------
(* safety/utils.py: SecretRedactor.  The regular expressions of PATTERNS  *)
(* are matched as the re module matches them: leftmost match first, greedy  *)
(* runs, matches that do not overlap.                                       *)

Letters == Range(UpperChars) \cup Range(LowerChars)

Digits == Range(DigitChars)

\* the character classes of PATTERNS: \w, [A-Za-z0-9], [A-Za-z0-9_-] (also
\* [0-9A-Za-z\-_]), \s and [^'"\r\n]
InClass(class, c) ==
    CASE class = "word" -> c \in Letters \cup Digits \cup {"_"}
      [] class = "alnum" -> c \in Letters \cup Digits
      [] class = "word_dash" -> c \in Letters \cup Digits \cup {"_", "-"}
      [] class = "space" -> IsSpace(c)
      [] class = "value" -> c \notin {"'", "\"", "\r", "\n"}

\* \b between text[k] and text[k + 1], for k in 0..Len(text)
WordBoundary(text, k) ==
    (k >= 1 /\ InClass("word", text[k]))
        # (k < Len(text) /\ InClass("word", text[k + 1]))

\* the last position of the longest run of characters of the class that
\* starts at pos; pos - 1 when there is none
RunEnd(text, pos, class) ==
    LET stops == {k \in pos..Len(text) : ~InClass(class, text[k])}
    IN  IF stops = {} THEN Len(text)
        ELSE (CHOOSE k \in stops : \A j \in stops : k <= j) - 1

\* the names of the first pattern, spelled out:
\* api[_-]?key|token|secret|password|passwrod|passw(?:o|or)?rd|pwd|auth
SecretNames ==
    { <<"a", "p", "i", "k", "e", "y">>,
      <<"a", "p", "i", "_", "k", "e", "y">>,
      <<"a", "p", "i", "-", "k", "e", "y">>,
      <<"t", "o", "k", "e", "n">>,
      <<"s", "e", "c", "r", "e", "t">>,
      <<"p", "a", "s", "s", "w", "o", "r", "d">>,
      <<"p", "a", "s", "s", "w", "r", "o", "d">>,
      <<"p", "a", "s", "s", "w", "r", "d">>,
      <<"p", "a", "s", "s", "w", "o", "r", "r", "d">>,
      <<"p", "w", "d">>,
      <<"a", "u", "t", "h">> }

\* (?i): the name stands at pos in any mix of cases
NameAt(text, pos, name) ==
    /\ pos + Len(name) - 1 <= Len(text)
    /\ Lower(SubSeq(text, pos, pos + Len(name) - 1)) = name

\* {8,}: the least length of the quoted literal
MIN_LITERAL_LEN == 8

\* the first pattern at pos: \b name \b \s* [:=] \s* quote, 8 or more
\* characters other than quotes and line ends, the same quote again.  The
\* result is the last position of the match, 0 when there is no match.
AssignmentEnd(text, pos) ==
    IF ~WordBoundary(text, pos - 1)
       \/ ~\E name \in SecretNames : NameAt(text, pos, name)
    THEN 0
    ELSE LET name == CHOOSE name \in SecretNames : NameAt(text, pos, name)
             name_end == pos + Len(name) - 1
             sep == RunEnd(text, name_end + 1, "space") + 1
             quote == RunEnd(text, sep + 1, "space") + 1
             value_end == RunEnd(text, quote + 1, "value")
         IN  IF /\ WordBoundary(text, name_end)
                /\ sep <= Len(text) /\ text[sep] \in {":", "="}
                /\ quote <= Len(text) /\ text[quote] \in {"'", "\""}
                /\ value_end - quote >= MIN_LITERAL_LEN
                /\ value_end + 1 <= Len(text)
                /\ text[value_end + 1] = text[quote]
             THEN value_end + 1
             ELSE 0

\* a token pattern at pos: a prefix and exactly count characters of a class
TokenEnd(text, pos, prefix, class, count) ==
    IF /\ LitAt(text, pos, prefix)
       /\ RunEnd(text, pos + Len(prefix), class)
             >= pos + Len(prefix) + count - 1
    THEN pos + Len(prefix) + count - 1
    ELSE 0

GITHUB_PAT_LEN == 82

GH_TOKEN_LEN == 36

SK_KEY_MIN_LEN == 20

AIZA_KEY_LEN == 35

\* gh[opusr]_[A-Za-z0-9]{36}
GhTokenEnd(text, pos) ==
    IF \E kind \in {"o", "p", "u", "s", "r"} :
          LitAt(text, pos, <<"g", "h", kind, "_">>)
    THEN TokenEnd(text, pos, SubSeq(text, pos, pos + 3), "alnum",
                  GH_TOKEN_LEN)
    ELSE 0

\* \b(sk-[A-Za-z0-9_-]{20,})\b: the run is taken as long as possible and
\* given back until a word boundary follows
SkKeyEnd(text, pos) ==
    IF WordBoundary(text, pos - 1) /\ LitAt(text, pos, <<"s", "k", "-">>)
    THEN LET ends == {e \in (pos + 2 + SK_KEY_MIN_LEN)
                              ..RunEnd(text, pos + 3, "word_dash") :
                         WordBoundary(text, e)}
         IN  IF ends = {} THEN 0
             ELSE CHOOSE e \in ends : \A other \in ends : other <= e
    ELSE 0

\* \b(AIza[0-9A-Za-z\-_]{35})\b
AizaKeyEnd(text, pos) ==
    LET end == TokenEnd(text, pos, <<"A", "I", "z", "a">>, "word_dash",
                        AIZA_KEY_LEN)
    IN  IF WordBoundary(text, pos - 1) /\ end > 0 /\ WordBoundary(text, end)
        THEN end ELSE 0

\* PATTERNS, in the order of the source
PATTERNS == <<"assignment", "github_pat", "gh_token", "sk_key", "aiza_key">>

\* the last position of the match of the pattern that starts at pos, 0 when
\* the pattern does not match there
MatchEnd(pattern, text, pos) ==
    CASE pattern = "assignment" -> AssignmentEnd(text, pos)
      [] pattern = "github_pat" ->
            TokenEnd(text, pos,
                     <<"g", "i", "t", "h", "u", "b", "_", "p", "a", "t", "_">>,
                     "word", GITHUB_PAT_LEN)
      [] pattern = "gh_token" -> GhTokenEnd(text, pos)
      [] pattern = "sk_key" -> SkKeyEnd(text, pos)
      [] pattern = "aiza_key" -> AizaKeyEnd(text, pos)

\* the replacement text "********"
Stars == <<"*", "*", "*", "*", "*", "*", "*", "*">>

\* s[from:].replace(old, new) for a non-empty old
RECURSIVE StrReplaceFrom(_, _, _, _)
StrReplaceFrom(s, old, new, from) ==
    LET hits == {i \in from..(Len(s) - Len(old) + 1) : LitAt(s, i, old)}
    IN  IF hits = {} THEN SubSeq(s, from, Len(s))
        ELSE LET i == CHOOSE i \in hits : \A j \in hits : i <= j
             IN  SubSeq(s, from, i - 1) \o new
                 \o StrReplaceFrom(s, old, new, i + Len(old))

\* match.group(match.lastindex): the quoted literal (group 3) of the first
\* pattern, the whole token (group 1) of the others
LastGroup(pattern, full_match) ==
    IF pattern = "assignment"
    THEN LET closing == Len(full_match)
             opening == CHOOSE q \in 1..(closing - 1) :
                           /\ full_match[q] = full_match[closing]
                           /\ \A k \in (q + 1)..(closing - 1) :
                                 full_match[k] # full_match[closing]
         IN  SubSeq(full_match, opening + 1, closing - 1)
    ELSE full_match

\* replace_match(match): every pattern has a group that takes part in the
\* match, so lastindex is never None
replace_match(pattern, full_match) ==
    StrReplaceFrom(full_match, LastGroup(pattern, full_match), Stars, 1)

\* pattern.sub(replace_match, text), from position from on
RECURSIVE SubFrom(_, _, _)
SubFrom(pattern, text, from) ==
    LET starts == {i \in from..Len(text) : MatchEnd(pattern, text, i) > 0}
    IN  IF starts = {} THEN SubSeq(text, from, Len(text))
        ELSE LET i == CHOOSE i \in starts : \A j \in starts : i <= j
                 end == MatchEnd(pattern, text, i)
             IN  SubSeq(text, from, i - 1)
                 \o replace_match(pattern, SubSeq(text, i, end))
                 \o SubFrom(pattern, text, end + 1)

\* the loop of redact over the patterns k, k + 1, ...
RECURSIVE RedactFrom(_, _)
RedactFrom(redacted, k) ==
    IF k > Len(PATTERNS) THEN redacted
    ELSE RedactFrom(SubFrom(PATTERNS[k], redacted, 1), k + 1)

\* SecretRedactor.redact(text)
redact(text) == IF text = <<>> THEN text ELSE RedactFrom(text, 1)

-----------------------------------------------------------------------------
(* SpecCalls: a unit caller (a test, or main.py) makes one call of one     *)
(* function of the program with arguments of its choice and keeps what     *)
(* comes back.                                                             *)

\* narration and fence lines a model may put around its JSON object
ProseHere ==
    <<"H", "e", "r", "e", " ", "i", "s", " ", "J", "S", "O", "N", ":">>

ProseEnd ==
    <<"E", "n", "d", ".">>

FenceJson ==
    <<Backtick, Backtick, Backtick, "j", "s", "o", "n">>

FenceBare ==
    <<Backtick, Backtick, Backtick>>

FenceIndented ==
    <<" ", " ", Backtick, Backtick, Backtick>>

ProseBracket ==
    <<"s", "e", "e", " ", "[", "1", "]">>

ProseBrace ==
    <<"u", "s", "e", " ", "{", "x", "}">>

ProseQuote ==
    <<"s", "a", "y", " ", "\"", "h", "i">>

BeforeLines ==
    { ProseHere, FenceJson, FenceIndented, ProseBracket, ProseBrace,
      ProseQuote }

AfterLines == {FenceBare, ProseEnd, ProseBrace}

\* the text of JSON objects
ObjectEmpty ==
    <<"{", "}">>

ObjectTest ==
    <<"{", "\"", "k", "e", "y", "\"", ":", "\"", "v", "a", "l", "u", "e",
      "\"", "}">>

ObjectIssues ==
    <<"{", "\"", "i", "s", "s", "u", "e", "s", "\"", ":", "[", "{", "\"", "i",
      "d", "\"", ":", "\"", "a", "\"", ",", "\"", "l", "i", "n", "e", "_",
      "s", "t", "a", "r", "t", "\"", ":", "2", "}", "]", "}">>

ObjectBraceInString ==
    <<"{", "\"", "a", "\"", ":", "\"", "}", "\"", "}">>

ObjectEscapedQuote ==
    <<"{", "\"", "a", "\"", ":", "\"", "\\", "\"", "{", "\"", "}">>

ObjectTwoLines ==
    <<"{", "\"", "a", "\"", ":", "\n", "1", "}">>

ObjectCrLf ==
    <<"{", "\"", "a", "\"", ":", "\r", "\n", "1", "}">>

JsonObjects ==
    { ObjectEmpty, ObjectTest, ObjectIssues, ObjectBraceInString,
      ObjectEscapedQuote, ObjectTwoLines, ObjectCrLf }

\* texts a caller may pass to _extract_first_json_payload
TextNoBracket ==
    <<" ", " ", "n", "o", " ", "j", "s", "o", "n", " ", "h", "e", "r", "e",
      " ">>

TextUnclosedObject ==
    <<"a", "b", "c", " ", "{", "u", "n", "c", "l", "o", "s", "e", "d">>

TextUnclosedList ==
    <<" ", "x", " ", "[", "1", ",", " ", "2", " ">>

TextUnclosedNested ==
    <<"{", "a", ":", " ", "{", "b", ":", " ", "1", "}">>

TextUnclosedString ==
    <<"{", "\"", "a", "\"", ":", "\"", "x", "}">>

TextObjectInProse ==
    <<"p", "r", "e", " ", "{", "\"", "a", "\"", ":", "1", "}", " ", "p", "o",
      "s", "t">>

TextListFirst ==
    <<"[", "1", ",", "2", "]", " ", "{", "\"", "a", "\"", ":", "1", "}">>

TextBlank ==
    <<" ", " ">>

PayloadTexts ==
    { TextNoBracket, TextUnclosedObject, TextUnclosedList, TextUnclosedNested,
      TextUnclosedString, TextObjectInProse, TextListFirst, TextBlank, <<>> }
    \cup JsonObjects

\* the lines of patch text a caller may pass to _parse_patch
HeaderTest ==
    <<"@", "@", " ", "-", "1", ",", "3", " ", "+", "1", ",", "4", " ", "@",
      "@">>

HeaderNoLength ==
    <<"@", "@", " ", "-", "5", " ", "+", "7", " ", "@", "@">>

HeaderZero ==
    <<"@", "@", " ", "-", "0", ",", "0", " ", "+", "1", "2", " ", "@", "@",
      " ", "d", "e", "f", " ", "f", "(", ")", ":">>

HeaderUnclosed ==
    <<"@", "@", " ", "-", "1", ",", "3", " ", "+", "1", ",", "4">>

LineAdded ==
    <<"+", "x">>

LineRemoved ==
    <<"-", "y">>

LineContext ==
    <<" ", "z">>

PatchLines ==
    { HeaderTest, HeaderNoLength, HeaderZero, HeaderUnclosed, LineAdded,
      LineRemoved, LineContext, <<>> }

\* the triage texts a unit caller lets the client return
TriageCallResponses(files) ==
    TriageResponses(files)
    \cup
    { [TriageObject(Some(JsonList(<<StrItem("a")>>)), NoneVal, NoneVal)
          EXCEPT !.focus_areas = Some(JsonNonList)],
      [TriageObject(Some(JsonNonList), Some(BudgetLow), Some(SummaryOk))
          EXCEPT !.focus_areas = Some(JsonList(<<StrItem("s")>>))],
      [TriageObject(Some(JsonList(<<StrItem("b")>>)), NoneVal, NoneVal)
          EXCEPT !.focus_areas = Some(JsonList(<<StrItem("s")>>))] }

InitCalls ==
    /\ pc = "calls"
    /\ max_comments = DEFAULT_MAX_COMMENTS
    /\ max_per_file = DEFAULT_MAX_PER_FILE
    /\ issues = <<>>
    /\ unique_issues = <<>>
    /\ limited_issues = <<>>
    /\ final_issues = <<>>
    /\ calls = 0
    /\ IdleRun
    /\ IdleCalls

\* a unit call touches nothing but its own record
CallFrame ==
    /\ UNCHANGED <<pc, max_comments, max_per_file>>
    /\ UNCHANGED policyVars
    /\ UNCHANGED runVars

\* a line of n characters: the prefix "+" and n - 1 times the character c
AddedLineOf(c, n) == [i \in 1..n |-> IF i = 1 THEN "+" ELSE c]

\* the header lines of the patches below
HeaderFirstOfTwo ==
    <<"@", "@", " ", "-", "1", ",", "2", " ", "+", "1", ",", "3", " ", "@",
      "@">>

HeaderSecondOfTwo ==
    <<"@", "@", " ", "-", "3", ",", "1", " ", "+", "4", ",", "2", " ", "@",
      "@">>

HeaderNewFileTwo ==
    <<"@", "@", " ", "-", "0", ",", "0", " ", "+", "1", ",", "2", " ", "@",
      "@">>

HeaderNewFileThree ==
    <<"@", "@", " ", "-", "0", ",", "0", " ", "+", "1", ",", "3", " ", "@",
      "@">>

\* the patch of tests/test_flow.py as GitHub delivers it
PatchTest == JoinLines(<<HeaderTest>> \o FileA.hunks[1].lines)

\* two hunks; the first has a removed line between two added lines
PatchTwoHunks ==
    JoinLines(<<HeaderFirstOfTwo, <<"+", "a">>, <<"-", "x">>, <<"+", "b">>,
                <<" ", "c">>, HeaderSecondOfTwo, <<" ", "k">>,
                <<"+", "n", "e", "w">> >>)

\* an added line longer than DEFAULT_LINE_EXCERPT_MAX_CHARS
PatchLongLine ==
    JoinLines(<<HeaderNewFileTwo, AddedLineOf("x", 205),
                <<"+", "s", "h", "o", "r", "t">> >>)

\* added lines that are together longer than DEFAULT_EXCERPT_MAX_CHARS
PatchLongTotal ==
    JoinLines(<<HeaderNewFileThree, AddedLineOf("p", 199),
                AddedLineOf("q", 199), AddedLineOf("r", 199)>>)

\* ChangedFile objects as get_pr_diff builds them from patch text
ExcerptFiles ==
    { ChangedFile("a", parse_patch(PatchTest)),
      ChangedFile("t", parse_patch(PatchTwoHunks)),
      ChangedFile("l", parse_patch(PatchLongLine)),
      ChangedFile("m", parse_patch(PatchLongTotal)),
      ChangedFile("e", parse_patch(HeaderTest)),
      FileB }

\* documentation evidence with an empty excerpt, and with the longest
\* excerpt the Evidence model accepts
DocEmptyExcerpt == [DocEvidence EXCEPT !.excerpt = <<>>]

DocLongExcerpt == [DocEvidence EXCEPT !.excerpt = [i \in 1..500 |-> "d"]]

\* a candidate whose range spans three lines
RawWideRange ==
    RawIssue(Some("issue-5"), Some("QUESTION"), Some("STYLE"), Some(TitleB),
             Some(MessageN), Some(1), Some(3), NoneVal, Some(80))

\* line_start / line_end of a candidate: absent, negative, zero, positive
LineValues == {NoneVal} \cup {Some(n) : n \in -1..MaxLine}

RawRange(ls, le) ==
    RawIssue(Some("issue-6"), Some("QUESTION"), Some("STYLE"), Some(TitleA),
             Some(MessageM), ls, le, NoneVal, Some(80))

\* the focused-review texts a unit caller lets the client return
ReviewCallResponses ==
    ReviewResponses
    \cup {FocusedObject(Some(JsonList(<<RawWideRange>>)))}
    \cup {FocusedObject(Some(JsonList(<<RawRange(ls, le)>>))) :
             ls \in LineValues, le \in LineValues}

\* the patch of a deleted file: the new side of its hunk starts at line 0
HeaderDeleted ==
    <<"@", "@", " ", "-", "1", ",", "2", " ", "+", "0", ",", "0", " ", "@",
      "@">>

FileDeleted ==
    ChangedFile("z", parse_patch(JoinLines(<<HeaderDeleted,
                                             <<"-", "o", "l", "d">>,
                                             <<"-", "e", "n", "d">> >>)))

\* a first hunk that only removes a line, a second one that adds a line
\* after a context line
HeaderRemovalOnly ==
    <<"@", "@", " ", "-", "2", " ", "+", "1", ",", "0", " ", "@", "@">>

HeaderAddsAfterContext ==
    <<"@", "@", " ", "-", "5", " ", "+", "4", ",", "2", " ", "@", "@">>

FileLateAddition ==
    ChangedFile("y", parse_patch(JoinLines(<<HeaderRemovalOnly,
                                             <<"-", "o", "l", "d">>,
                                             HeaderAddsAfterContext,
                                             <<" ", "k", "e", "p", "t">>,
                                             <<"+", "n", "e", "w">> >>)))

\* the files and documentation evidence a unit caller passes to review_file
ReviewCallFiles ==
    Range(AllFiles) \cup ExcerptFiles \cup {FileDeleted, FileLateAddition}

ReviewCallDocs == DocsChoices \cup {<<DocEmptyExcerpt>>, <<DocLongExcerpt>>}

\* analyzer.triage(filter_result, pr_meta) with a client that ends as chosen
CallTriage ==
    /\ fn = "none"
    /\ \E files \in FilterChoices :
          \E completion \in Completions(TriageCallResponses(files)) :
             /\ fn' = "triage"
             /\ args' = [files |-> files, completion |-> completion]
             /\ ret' = triage(files, completion)
    /\ CallFrame

\* analyzer.review_file(file, docs_evidence) with a client that ends as chosen
CallReviewFile ==
    /\ fn = "none"
    /\ \E file \in ReviewCallFiles :
          \E docs_evidence \in ReviewCallDocs :
             \E completion \in Completions(ReviewCallResponses) :
                /\ fn' = "review_file"
                /\ args' = [file |-> file, docs_evidence |-> docs_evidence,
                            completion |-> completion]
                /\ ret' = review_file(file, docs_evidence, completion)
    /\ CallFrame

\* SafeJSONParser.clean_json_text(text) on lines of narration and fencing,
\* one JSON object, and more such lines
CallCleanJsonText ==
    /\ fn = "none"
    /\ \E before \in SeqsUpTo(BeforeLines, MaxProseLines) :
          \E object \in JsonObjects :
             \E after \in SeqsUpTo(AfterLines, MaxProseLines) :
                LET text == JoinLines(before \o <<object>> \o after)
                IN  /\ fn' = "clean_json_text"
                    /\ args' = [before |-> before, object |-> object,
                                after |-> after, text |-> text]
                    /\ ret' = clean_json_text(text)
    /\ CallFrame

\* SafeJSONParser._extract_first_json_payload(text)
CallExtractFirstJsonPayload ==
    /\ fn = "none"
    /\ \E text \in PayloadTexts :
          /\ fn' = "_extract_first_json_payload"
          /\ args' = [text |-> text]
          /\ ret' = extract_first_json_payload(text)
    /\ CallFrame

\* provider._parse_patch(patch) on lines joined by "\n"
CallParsePatch ==
    /\ fn = "none"
    /\ \E lines \in SeqsUpTo(PatchLines, MaxPatchLines) :
          /\ fn' = "_parse_patch"
          /\ args' = [lines |-> lines, patch |-> JoinLines(lines)]
          /\ ret' = parse_patch(JoinLines(lines))
    /\ CallFrame

\* analyzer._extract_diff_excerpt(file, line_start, line_end)
CallExtractDiffExcerpt ==
    /\ fn = "none"
    /\ \E file \in ExcerptFiles :
          \E line_start \in 0..MaxLine :
             \E line_end \in 0..MaxLine :
                /\ fn' = "_extract_diff_excerpt"
                /\ args' = [file |-> file, line_start |-> line_start,
                            line_end |-> line_end]
                /\ ret' = extract_diff_excerpt(file, line_start, line_end)
    /\ CallFrame

\* what chat.completions.create does in one attempt: it raises an openai
\* error, or returns a message with content None or with a text
ClientResults ==
    {Raised(Exc(t)) : t \in RetryableErrors \cup {"AuthenticationError"}}
    \cup {Returned(NoneVal), Returned(Some(NotJson)),
          Returned(Some(FocusedObject(NoneVal)))}

\* llm.get_completion(system_prompt, user_prompt, ...) is entered: the retry
\* wrapper starts with attempt 1 and has neither tried nor slept yet
CallGetCompletion ==
    /\ fn = "none"
    /\ fn' = "get_completion"
    /\ args' = [attempt_number |-> 1, trace |-> <<>>]
    /\ ret' = NoneVal
    /\ CallFrame

\* one turn of the retry loop: the body runs once; a retryable failure is
\* followed by a sleep and the next attempt unless the attempts are used up
Attempt ==
    /\ fn = "get_completion"
    /\ ret = NoneVal
    /\ \E client_result \in ClientResults :
          LET outcome == get_completion_body(client_result)
              tried == Append(args.trace, AttemptEvent(outcome))
          IN  IF retry_if_exception_type(outcome)
              THEN IF args.attempt_number >= stop_after_attempt
                   THEN /\ ret' = retry_exhausted(outcome.exc)
                        /\ args' = [args EXCEPT !.trace = tried]
                   ELSE /\ ret' = NoneVal
                        /\ args' =
                              [attempt_number |-> args.attempt_number + 1,
                               trace |->
                                  Append(tried,
                                         SleepEvent(wait_exponential(
                                                    args.attempt_number)))]
              ELSE /\ ret' = outcome
                   /\ args' = [args EXCEPT !.trace = tried]
    /\ UNCHANGED fn
    /\ CallFrame

\* the errors a caller may hand to the classifier: openai errors, and
\* tenacity's RetryError around a failed or a successful last attempt
ClassifiedErrors ==
    CompletionErrors
    \cup {RetryError(t) : t \in RetryableErrors \cup {"ValueError"}}
    \cup {Exc("RetryError"), Exc("KeyError")}

\* is_rate_limit_error(exc), on an error given by the caller or on the error
\* a get_completion call has just raised (trace: the attempts of that call)
CallIsRateLimitError ==
    /\ \/ /\ fn = "none"
          /\ \E exc \in ClassifiedErrors :
                /\ args' = [exc |-> exc, trace |-> <<>>]
                /\ ret' = is_rate_limit_error(exc)
       \/ /\ fn = "get_completion"
          /\ ret # NoneVal
          /\ ret.raised
          /\ args' = [exc |-> ret.exc, trace |-> args.trace]
          /\ ret' = is_rate_limit_error(ret.exc)
    /\ fn' = "is_rate_limit_error"
    /\ CallFrame

\* a line of a prompt and the secret it carries, if any
PromptLine(text, secret) == [text |-> text, secret |-> secret]

\* prefix followed by count times the character c
Token(prefix, c, count) == prefix \o [i \in 1..count |-> c]

\* the literals and lines of tests/test_safety.py
SecretPassword ==
    <<"s", "u", "p", "e", "r", "s", "e", "c", "r", "e", "t", "1", "2", "3">>

SecretPasswrod ==
    <<"t", "y", "p", "o", "_", "s", "e", "c", "r", "e", "t", "_", "1", "2",
      "3">>

SecretApiKey ==
    <<"a", "b", "c", "D", "E", "F", "1", "2", "3", "4", "5", "6", "7", "8",
      "9", "0">>

SecretUpperToken ==
    <<"a", "b", "c", "d", "e", "f", "g", "h">>

TextPassword ==
    <<"p", "a", "s", "s", "w", "o", "r", "d", " ", "=", " ", "\"", "s", "u",
      "p", "e", "r", "s", "e", "c", "r", "e", "t", "1", "2", "3", "\"">>

TextPasswrod ==
    <<"p", "a", "s", "s", "w", "r", "o", "d", " ", "=", " ", "\"", "t", "y",
      "p", "o", "_", "s", "e", "c", "r", "e", "t", "_", "1", "2", "3", "\"">>

TextApiKey ==
    <<"a", "p", "i", "_", "k", "e", "y", ":", " ", "\"", "a", "b", "c", "D",
      "E", "F", "1", "2", "3", "4", "5", "6", "7", "8", "9", "0", "\"">>

TextAuthCall ==
    <<"a", "u", "t", "h", " ", "=", " ", "a", "u", "t", "h", "e", "n", "t",
      "i", "c", "a", "t", "e", "_", "u", "s", "e", "r", "(", "u", "s", "e",
      "r", ",", " ", "p", "a", "s", "s", "w", "o", "r", "d", ")">>

TextDeriveKey ==
    <<"k", "e", "y", " ", "=", " ", "d", "e", "r", "i", "v", "e", "_", "k",
      "e", "y", "(", "m", "a", "t", "e", "r", "i", "a", "l", ")">>

\* a quoted literal of fewer than 8 characters
TextShortPwd ==
    <<"p", "w", "d", " ", "=", " ", "'", "s", "h", "o", "r", "t", "'">>

\* upper case name, single quotes, exactly 8 characters
TextUpperToken ==
    <<"T", "O", "K", "E", "N", "=", "'", "a", "b", "c", "d", "e", "f", "g",
      "h", "'">>

TokenGitHub == Token(<<"g", "h", "p", "_">>, "a", 36)

TokenHuggingFace == Token(<<"h", "f", "_">>, "A", 34)

TokenOpenAI == Token(<<"s", "k", "-">>, "A", 30)

TokenGemini == Token(<<"A", "I", "z", "a">>, "A", 35)

TokenGitHubPat ==
    Token(<<"g", "i", "t", "h", "u", "b", "_", "p", "a", "t", "_">>, "b", 82)

\* the lines a prompt is made of: assignments of quoted literals to
\* secret-like names, tokens of the known formats, and code without secrets
PromptLines ==
    { PromptLine(TextPassword, Some(SecretPassword)),
      PromptLine(TextPasswrod, Some(SecretPasswrod)),
      PromptLine(TextApiKey, Some(SecretApiKey)),
      PromptLine(TextUpperToken, Some(SecretUpperToken)),
      PromptLine(TextAuthCall, NoneVal),
      PromptLine(TextDeriveKey, NoneVal),
      PromptLine(TextShortPwd, NoneVal),
      PromptLine(TokenGitHub, Some(TokenGitHub)),
      PromptLine(TokenHuggingFace, Some(TokenHuggingFace)),
      PromptLine(TokenOpenAI, Some(TokenOpenAI)),
      PromptLine(TokenGemini, Some(TokenGemini)),
      PromptLine(TokenGitHubPat, Some(TokenGitHubPat)) }

\* SecretRedactor().redact(text) on a text of up to MaxPromptLines lines
CallRedact ==
    /\ fn = "none"
    /\ \E lines \in SeqsUpTo(PromptLines, MaxPromptLines) :
          LET text == JoinLines([k \in 1..Len(lines) |-> lines[k].text])
          IN  /\ fn' = "redact"
              /\ args' = [lines |-> lines, text |-> text]
              /\ ret' = redact(text)
    /\ CallFrame

NextCalls ==
    \/ CallGetCompletion
    \/ Attempt
    \/ CallIsRateLimitError
    \/ CallRedact
    \/ CallTriage
    \/ CallReviewFile
    \/ CallCleanJsonText
    \/ CallExtractFirstJsonPayload
    \/ CallParsePatch
    \/ CallExtractDiffExcerpt

SpecCalls == InitCalls /\ [][NextCalls]_vars

-----------------------------------------------------------------------------
(* Properties of apply_policy (SpecPolicy) *)

Indices(s) == 1..Len(s)

\* the deduplication key as the specification words it
StatedKey(issue) ==
    <<issue.path, issue.line_start, issue.line_end, issue.severity,
      Lower(Strip(issue.title))>>

\* an issue with its fingerprint cleared, to compare input with output
Plain(issue) == [issue EXCEPT !.fingerprint = NoneVal]

HasEvidenceAndText(issue) ==
    /\ issue.evidence.some
    /\ Len(issue.evidence.val.excerpt) > 0
    /\ Len(Strip(issue.title)) > 0
    /\ Len(Strip(issue.message)) > 0

HasConcreteSuggestion(issue) ==
    /\ issue.suggestion.some
    /\ Len(Strip(issue.suggestion.val)) >= 8

\* the subsequence of the issues of one path
OfPath(s, path) == SelectSeq(s, LAMBDA x : x.path = path)

PathsOf(s) == {s[i].path : i \in Indices(s)}

\* C1: apply_policy is idempotent: called on the list it returned, it
\* returns the same issues in the same order.
C1_Idempotent == pc = "reapplied" => final_issues = issues

C1_Witness ==
    /\ pc = "reapplied"
    /\ Len(final_issues) >= 2
    /\ \E i \in Indices(final_issues) : \E j \in Indices(final_issues) :
          /\ i < j
          /\ final_issues[i].severity = final_issues[j].severity
          /\ final_issues[i].confidence = final_issues[j].confidence

\* C2: no issue of the output has a confidence below the minimum of its
\* severity (BLOCKER 0.9, IMPORTANT 0.85, QUESTION 0.7, NIT 0.75), and an
\* issue exactly at the minimum that meets the other gates survives the
\* gates (it, or an earlier issue of the same key, reaches the ranked list).
C2_ConfidenceGate ==
    calls >= 1 =>
        /\ \A i \in Indices(final_issues) :
              LET x == final_issues[i]
              IN  /\ x.severity = "BLOCKER" => x.confidence >= 90
                  /\ x.severity = "IMPORTANT" => x.confidence >= 85
                  /\ x.severity = "QUESTION" => x.confidence >= 70
                  /\ x.severity = "NIT" => x.confidence >= 75
        /\ \A i \in Indices(issues) :
              LET x == issues[i]
                  atMinimum ==
                      \/ x.severity = "BLOCKER" /\ x.confidence = 90
                      \/ x.severity = "IMPORTANT" /\ x.confidence = 85
                      \/ x.severity = "QUESTION" /\ x.confidence = 70
                      \/ x.severity = "NIT" /\ x.confidence = 75
              IN  ( /\ atMinimum
                    /\ HasEvidenceAndText(x)
                    /\ (x.severity \in {"BLOCKER", "IMPORTANT"}
                           => HasConcreteSuggestion(x)) )
                  => \E j \in Indices(unique_issues) :
                        StatedKey(unique_issues[j]) = StatedKey(x)

C2_Witness ==
    /\ pc = "applied"
    /\ \E i \in Indices(issues) :
          /\ issues[i].severity = "IMPORTANT"
          /\ issues[i].confidence = 84
    /\ \E i \in Indices(final_issues) :
          /\ final_issues[i].severity = "IMPORTANT"
          /\ final_issues[i].confidence = 85
    /\ \E i \in Indices(final_issues) :
          /\ final_issues[i].severity = "NIT"
          /\ final_issues[i].confidence = 75

\* C3: the output never holds two issues that agree on (path, line_start,
\* line_end, severity, trimmed lower-cased title).
C3_NoDuplicateKey ==
    calls >= 1 =>
        \A i \in Indices(final_issues) : \A j \in Indices(final_issues) :
            i # j => StatedKey(final_issues[i]) # StatedKey(final_issues[j])

C3_Witness ==
    /\ pc = "applied"
    /\ \E i \in Indices(issues) : \E j \in Indices(issues) :
          /\ i < j
          /\ StatedKey(issues[i]) = StatedKey(issues[j])
          /\ issues[i].id # issues[j].id
          /\ issues[i].title # issues[j].title
          /\ issues[i].confidence # issues[j].confidence
          /\ issues[i].message # issues[j].message
          /\ HasEvidenceAndText(issues[i])
          /\ HasEvidenceAndText(issues[j])
          /\ \E k \in Indices(final_issues) : final_issues[k].id = issues[i].id

C6_Caps ==
    calls >= 1 =>
        /\ \A p \in PathsOf(final_issues) :
              Len(OfPath(final_issues, p)) <= max_per_file
        /\ Len(final_issues) <= max_comments
        /\ \A p \in PathsOf(unique_issues) :
              OfPath(limited_issues, p)
                  = SubSeq(OfPath(unique_issues, p), 1,
                           Min(max_per_file, Len(OfPath(unique_issues, p))))
        /\ final_issues
              = SubSeq(limited_issues, 1, Min(max_comments, Len(limited_issues)))

C6_Witness ==
    /\ pc = "applied"
    /\ Len(limited_issues) < Len(unique_issues)
    /\ 0 < Len(final_issues)
    /\ Len(final_issues) < Len(limited_issues)

\* C7: the output is ordered by severity rank ascending (BLOCKER, IMPORTANT,
\* QUESTION, NIT) and within one severity by confidence descending; issues
\* equal on both keys keep their relative input order.
StatedRank(severity) ==
    CASE severity = "BLOCKER" -> 0
      [] severity = "IMPORTANT" -> 1
      [] severity = "QUESTION" -> 2
      [] severity = "NIT" -> 3

FirstIndexOf(s, x) ==
    CHOOSE k \in Indices(s) :
        /\ Plain(s[k]) = Plain(x)
        /\ \A m \in 1..(k - 1) : Plain(s[m]) # Plain(x)

C7_Ranked ==
    calls >= 1 =>
        \A i \in Indices(final_issues) : \A j \in Indices(final_issues) :
            i < j =>
                LET x == final_issues[i]
                    y == final_issues[j]
                IN  \/ StatedRank(x.severity) < StatedRank(y.severity)
                    \/ /\ x.severity = y.severity
                       /\ x.confidence > y.confidence
                    \/ /\ x.severity = y.severity
                       /\ x.confidence = y.confidence
                       /\ FirstIndexOf(issues, x) < FirstIndexOf(issues, y)

C7_Witness ==
    /\ pc = "applied"
    /\ Len(final_issues) = 3
    /\ final_issues[1].severity = "BLOCKER"
    /\ final_issues[2].severity = "QUESTION"
    /\ final_issues[3].severity = "QUESTION"
    /\ final_issues[2].confidence = final_issues[3].confidence
    /\ Plain(final_issues[1]) = issues[3]

-----------------------------------------------------------------------------
(* Properties of one run of the review command (Spec) *)

RECURSIVE Flatten(_)
Flatten(lists) ==
    IF lists = <<>> THEN <<>> ELSE Head(lists) \o Flatten(Tail(lists))

\* the issue lists review_file returned, in call order
ReturnedLists ==
    LET returned == SelectSeq(review_log, LAMBDA e : ~e.raised)
    IN  [i \in 1..Len(returned) |-> returned[i].issues]

\* the paths review_file was called for, in call order
ReviewedPaths == [i \in 1..Len(review_log) |-> review_log[i].path]

\* the selected files: the files of the filter result that the plan names
SelectedPaths ==
    SelectSeq(PathsOfFiles(filter_files),
              LAMBDA p : \E i \in 1..Len(files_to_review_paths) :
                            files_to_review_paths[i] = p)

RateLimitClassified(entry) ==
    /\ entry.raised
    /\ \/ entry.exc.val.type = "RateLimitError"
       \/ /\ entry.exc.val.type = "RetryError"
          /\ entry.exc.val.last_attempt = Some("RateLimitError")

\* C5: an issue that review_file builds from a schema-valid candidate with
\* non-blank title and message, bound to DIFF evidence, with a confidence
\* that meets the minimum of its severity, is kept by the default policy
\* (one issue in, one issue out).
C5_ReviewedIssueKept ==
    ( /\ pc = "done"
      /\ Len(all_issues) = 1
      /\ Len(Strip(all_issues[1].title)) > 0
      /\ Len(Strip(all_issues[1].message)) > 0
      /\ all_issues[1].evidence.some
      /\ all_issues[1].evidence.val.type = "DIFF"
      /\ all_issues[1].confidence >= min_confidence[all_issues[1].severity] )
    => Len(final_issues) = 1

\* C8: when the review call of the k-th selected file raises a rate-limit
\* error the run goes on to its result: the policy input is the
\* concatenation of the lists returned for the first k-1 selected files,
\* the files-analyzed count is k-1 and the summary ends with the
\* partial-review notice.
C8_PartialResult ==
    (review_log # <<>> /\ review_log[Len(review_log)].raised) =>
        LET k == Len(review_log)
        IN  /\ pc \in {"policy", "done"}
            /\ ReviewedPaths = SubSeq(SelectedPaths, 1, k)
            /\ all_issues = Flatten(ReturnedLists)
            /\ Len(ReturnedLists) = k - 1
            /\ files_reviewed_count = k - 1
            /\ pc = "done" =>
                  /\ issues = Flatten(ReturnedLists)
                  /\ result.val.files_analyzed = k - 1
                  /\ result.val.summary[Len(result.val.summary)]
                        = " Partial review only: stopped early due to LLM rate limits."

C8_Witness ==
    /\ pc = "done"
    /\ Len(review_log) = 3
    /\ review_log[3].raised
    /\ review_log[1].issues # <<>>
    /\ review_log[2].issues # <<>>
    /\ Len(SelectedPaths) = 3
    /\ final_issues # <<>>

\* the position of the first occurrence of a path in the plan's list
PlanPosition(path) ==
    CHOOSE i \in 1..Len(files_to_review_paths) :
        /\ files_to_review_paths[i] = path
        /\ \A j \in 1..(i - 1) : files_to_review_paths[j] # path

\* C9 as stated: files are reviewed in the order in which the triage plan
\* lists them, and the policy input is the concatenation of the per-file
\* lists in that order.
C9_PlanOrder ==
    /\ \A i \in 1..Len(review_log) : \A j \in 1..Len(review_log) :
          i < j => PlanPosition(review_log[i].path)
                       < PlanPosition(review_log[j].path)
    /\ pc = "done" => issues = Flatten(ReturnedLists)

\* C9 amended: files are reviewed in the order in which the filter result
\* lists them (the plan only selects which of them are reviewed), and the
\* policy input is the concatenation of the per-file lists in that order.
C9_FilterOrder ==
    /\ ReviewedPaths = SubSeq(SelectedPaths, 1, Len(review_log))
    /\ (pc = "done" /\ ~rate_limit_reached) => ReviewedPaths = SelectedPaths
    /\ all_issues = Flatten(ReturnedLists)
    /\ pc = "done" => issues = Flatten(ReturnedLists)

C9_Witness ==
    /\ pc = "done"
    /\ Len(files_to_review_paths) = 2
    /\ files_to_review_paths[1] = "c"
    /\ files_to_review_paths[2] = "a"
    /\ Len(review_log) = 2
    /\ review_log[1].path = "a"
    /\ review_log[2].path = "c"
    /\ review_log[1].issues # <<>>
    /\ review_log[2].issues # <<>>
    /\ issues = review_log[1].issues \o review_log[2].issues

\* C10: when the triage completion fails with a rate-limit error, triage
\* returns (the run does not end there) a plan with no file to review,
\* budget low and the fixed summary, however many files the filter kept.
C10_TriageRateLimit ==
    (llm_log # <<>> /\ RateLimitClassified(llm_log[1])) =>
        /\ pc # "crashed"
        /\ triage_plan.files_to_review = <<>>
        /\ triage_plan.budget = <<"l", "o", "w">>
        /\ triage_plan.summary
              = Some(<<"LLM rate limit reached. Focused review skipped. ",
                       "Retry later or increase model quota.">>)

C10_Witness ==
    /\ llm_log # <<>>
    /\ RateLimitClassified(llm_log[1])
    /\ Len(filter_files) = 3
    /\ pc = "done"
    /\ review_log = <<>>


-----------------------------------------------------------------------------
(* Properties of triage and review_file as functions (SpecCalls) *)

\* the completion ended with an error that counts as a rate limit
RateLimited(completion) ==
    /\ completion.raised
    /\ \/ completion.exc.type = "RateLimitError"
       \/ /\ completion.exc.type = "RetryError"
          /\ completion.exc.last_attempt = Some("RateLimitError")

\* the completion returned text whose payload is not JSON
TextNotJson(completion) == ~completion.raised /\ ~completion.value.json

\* the completion returned text whose payload is JSON
TextIsJson(completion) == ~completion.raised /\ completion.value.json

\* C11: triage is fail-open for every failure that is not a rate limit: when
\* the completion raises another error, or returns text that is not JSON at
\* all, triage returns (does not raise) a plan whose files_to_review is the
\* path of every file of filter_result.files_to_review.
C11_TriageFailOpen ==
    ( /\ fn = "triage"
      /\ \/ args.completion.raised /\ ~RateLimited(args.completion)
         \/ TextNotJson(args.completion) ) =>
        /\ ~ret.raised
        /\ ret.value.files_to_review
              = [i \in 1..Len(args.files) |-> args.files[i].path]

\* C12: when the triage text is JSON, triage does not raise and returns a
\* plan with all four fields: a missing summary gives summary = null, a
\* files_to_review or focus_areas that is not a list gives an empty list,
\* and a JSON value that is not an object gives the default plan.
C12_TriageCoerced ==
    (fn = "triage" /\ TextIsJson(args.completion)) =>
        LET data == args.completion.value
        IN  /\ ~ret.raised
            /\ DOMAIN ret.value
                  = {"files_to_review", "focus_areas", "budget", "summary"}
            /\ ret.value.budget \in {<<"l", "o", "w">>, <<"h", "i", "g", "h">>,
                                     <<"n", "o", "r", "m", "a", "l">>}
            /\ IF data.is_dict
               THEN /\ ~data.summary.some => ret.value.summary = NoneVal
                    /\ (data.files_to_review.some
                           /\ ~data.files_to_review.val.is_list)
                          => ret.value.files_to_review = <<>>
                    /\ (data.focus_areas.some
                           /\ ~data.focus_areas.val.is_list)
                          => ret.value.focus_areas = <<>>
               ELSE ret.value = [files_to_review |-> <<>>,
                                 focus_areas |-> <<>>,
                                 budget |-> <<"n", "o", "r", "m", "a", "l">>,
                                 summary |-> NoneVal]

\* a strictly invalid object was coerced: files_to_review was not a list, the
\* other fields were kept
C12_Witness ==
    /\ fn = "triage"
    /\ TextIsJson(args.completion)
    /\ args.completion.value.is_dict
    /\ args.completion.value.files_to_review = Some(JsonNonList)
    /\ args.completion.value.focus_areas.some
    /\ ~ret.raised
    /\ ret.value.files_to_review = <<>>
    /\ ret.value.focus_areas = <<"s">>
    /\ ret.value.budget = <<"l", "o", "w">>

\* C13: review_file is fail-closed per file: when the completion raises an
\* error that is not rate-limit-classified, or returns text that is not
\* JSON, review_file returns the empty list and does not raise; it raises
\* exactly when the completion error is rate-limit-classified.
C13_ReviewFileFailClosed ==
    fn = "review_file" =>
        /\ ret.raised <=> RateLimited(args.completion)
        /\ ( \/ args.completion.raised /\ ~RateLimited(args.completion)
             \/ TextNotJson(args.completion) )
              => (~ret.raised /\ ret.value = <<>>)

C13_Witness ==
    /\ fn = "review_file"
    /\ args.completion.raised
    /\ args.completion.exc.type = "APIConnectionError"
    /\ ~ret.raised
    /\ ret.value = <<>>

\* what the stated normalisation makes of a severity string
StatedSeverity(text) ==
    IF text \in {"BLOCKER", "IMPORTANT", "QUESTION", "NIT"} THEN text
    ELSE IF text = "blocker" THEN "BLOCKER"
    ELSE "NIT"

\* the raw item is an object whose severity string is not a Severity value
InexactSeverity(raw) ==
    /\ raw.is_dict
    /\ raw.severity.some
    /\ raw.severity.val \notin {"BLOCKER", "IMPORTANT", "QUESTION", "NIT"}

\* C14: in a focused-review response that fails strict validation, an issue
\* whose severity string is not an exact enum value is not discarded: an
\* Issue is returned for it, with the severity matched case-insensitively
\* ("blocker" becomes BLOCKER) or, failing that, NIT.
C14_InexactEnumKept ==
    ( /\ fn = "review_file"
      /\ TextIsJson(args.completion)
      /\ args.completion.value.is_dict
      /\ args.completion.value.issues.some
      /\ args.completion.value.issues.val.is_list ) =>
        LET items == args.completion.value.issues.val.items
        IN  \A i \in 1..Len(items) :
               InexactSeverity(items[i]) =>
                  /\ ~ret.raised
                  /\ \E j \in 1..Len(ret.value) :
                        /\ items[i].id = Some(ret.value[j].id)
                        /\ ret.value[j].severity
                              = StatedSeverity(items[i].severity.val)

-----------------------------------------------------------------------------
(* Properties of SafeJSONParser (SpecCalls) *)

\* C15 as stated: for every input made of prose and code-fence lines before
\* and after a single JSON object, clean_json_text returns exactly the text
\* of that object.
C15_ExactObject ==
    fn = "clean_json_text" => ret = args.object

\* the line is a code-fence line: its first non-blank characters are the
\* three backticks
IsFenceLine(line) ==
    \E k \in 1..Len(line) :
       /\ \A j \in 1..(k - 1) : line[j] \in {" ", "\t"}
       /\ k + 2 <= Len(line)
       /\ \A j \in k..(k + 2) : line[j] = Backtick

HasBracket(line) == \E k \in 1..Len(line) : line[k] \in {"{", "["}

\* C15 amended: when every line before the object is a code-fence line or
\* holds no opening bracket, and the object's text has no line break other
\* than "\n", clean_json_text returns exactly the text of the object.
C15_ExactObjectAfterPlainProse ==
    ( /\ fn = "clean_json_text"
      /\ \A i \in 1..Len(args.before) :
            IsFenceLine(args.before[i]) \/ ~HasBracket(args.before[i])
      /\ \A k \in 1..Len(args.object) : args.object[k] # "\r" ) =>
        ret = args.object

\* narration, an opening fence, an object with a brace inside a string, a
\* stray closing fence and narration with a brace after it
C15_Witness ==
    /\ fn = "clean_json_text"
    /\ Len(args.before) = 2
    /\ ~IsFenceLine(args.before[1])
    /\ IsFenceLine(args.before[2])
    /\ \E k \in 1..Len(args.object) :
          k > 1 /\ k < Len(args.object) /\ args.object[k] = "}"
    /\ Len(args.after) = 2
    /\ IsFenceLine(args.after[1])
    /\ HasBracket(args.after[2])
    /\ ret = args.object
    /\ ret # args.text

\* the text has no quotation mark and no balanced payload: no opening
\* bracket, or at no position after the first one have as many closing as
\* opening brackets of its kind been read
NoBalancedPayload(text) ==
    /\ \A k \in 1..Len(text) : text[k] # "\""
    /\ \/ \A k \in 1..Len(text) : text[k] \notin {"{", "["}
       \/ \E start \in 1..Len(text) :
             /\ text[start] \in {"{", "["}
             /\ \A k \in 1..(start - 1) : text[k] \notin {"{", "["}
             /\ LET closing == IF text[start] = "{" THEN "}" ELSE "]"
                    count(c, k) ==
                        Cardinality({i \in start..k : text[i] = c})
                IN  \A k \in start..Len(text) :
                       count(text[start], k) # count(closing, k)

\* C16: when the text holds no balanced JSON payload, the extraction returns
\* the whole trimmed input unchanged, text before the opening bracket
\* included.
C16_UnbalancedUnchanged ==
    (fn = "_extract_first_json_payload" /\ NoBalancedPayload(args.text)) =>
        ret = Strip(args.text)

-----------------------------------------------------------------------------
(* Properties of _parse_patch (SpecCalls) *)

\* the numbers a hunk-header line states, None for any other line
StatedHeader(line) ==
    IF line = <<"@", "@", " ", "-", "1", ",", "3", " ", "+", "1", ",", "4",
                " ", "@", "@">>
    THEN Some([old_start |-> 1, old_lines |-> 3,
               new_start |-> 1, new_lines |-> 4])
    ELSE IF line = <<"@", "@", " ", "-", "5", " ", "+", "7", " ", "@", "@">>
    THEN Some([old_start |-> 5, old_lines |-> 1,
               new_start |-> 7, new_lines |-> 1])
    ELSE IF Len(line) > 16 /\ SubSeq(line, 1, 16) =
               <<"@", "@", " ", "-", "0", ",", "0", " ", "+", "1", "2", " ",
                 "@", "@", " ", "d">>
    THEN Some([old_start |-> 0, old_lines |-> 0,
               new_start |-> 12, new_lines |-> 1])
    ELSE NoneVal

HeaderPositions(lines) ==
    {i \in 1..Len(lines) : StatedHeader(lines[i]).some}

\* C17: _parse_patch returns exactly one hunk per hunk-header line, in patch
\* order; text without a header line gives the empty sequence, lines before
\* the first header are dropped, every other line that is not a header
\* belongs to the hunk of the nearest header before it, and a header without
\* a length field gets length 1.
C17_OneHunkPerHeader ==
    fn = "_parse_patch" =>
        LET lines == args.lines
            at == HeaderPositions(lines)
            nth(k) == CHOOSE i \in at : Cardinality({j \in at : j < i}) = k - 1
            stop(k) == IF k = Cardinality(at) THEN Len(lines)
                       ELSE nth(k + 1) - 1
        IN  /\ Len(ret) = Cardinality(at)
            /\ \A k \in 1..Len(ret) :
                  /\ ret[k].header = lines[nth(k)]
                  /\ ret[k].lines = SubSeq(lines, nth(k) + 1, stop(k))
                  /\ LET stated == StatedHeader(lines[nth(k)]).val
                     IN  /\ ret[k].old_start = stated.old_start
                         /\ ret[k].old_lines = stated.old_lines
                         /\ ret[k].new_start = stated.new_start
                         /\ ret[k].new_lines = stated.new_lines

\* a line before the first header was dropped, the header has no length
\* field, and the line after it is the hunk's only line
C17_Witness ==
    /\ fn = "_parse_patch"
    /\ Len(args.lines) = 3
    /\ ~StatedHeader(args.lines[1]).some
    /\ args.lines[1] # <<>>
    /\ args.lines[2] = <<"@", "@", " ", "-", "5", " ", "+", "7", " ", "@", "@">>
    /\ ~StatedHeader(args.lines[3]).some
    /\ Len(ret) = 1
    /\ ret[1].old_lines = 1
    /\ ret[1].new_lines = 1
    /\ ret[1].lines = <<args.lines[3]>>

\* C18: no hunk in the sequence _parse_patch returns has zero lines: a header
\* that is followed at once by another header or by the end of the input
\* produces no hunk.
C18_NoEmptyHunk ==
    fn = "_parse_patch" => \A k \in 1..Len(ret) : ret[k].lines # <<>>

-----------------------------------------------------------------------------
(* Properties of the evidence excerpt (SpecCalls) *)

\* line i of the hunk takes a line number of the new file
InNewFile(hunk, i) == hunk.lines[i] # <<>> /\ hunk.lines[i][1] \in {"+", " "}

\* line i of the hunk is an added line
AddedAt(hunk, i) == hunk.lines[i] # <<>> /\ hunk.lines[i][1] = "+"

\* the new-file line number of line i of the hunk: new_start plus the number
\* of added and context lines before it
NewFileNumber(hunk, i) ==
    hunk.new_start + Cardinality({j \in 1..(i - 1) : InNewFile(hunk, j)})

\* every new-file line of the range is an added line of the hunk
InsideAddedLines(hunk, line_start, line_end) ==
    /\ 1 <= line_start
    /\ line_start <= line_end
    /\ \A n \in line_start..line_end :
          \E i \in 1..Len(hunk.lines) :
             AddedAt(hunk, i) /\ NewFileNumber(hunk, i) = n

\* the added lines of the hunk numbered line_start..line_end, in order, as
\* they stand in the diff
AddedLines(hunk, line_start, line_end) ==
    [k \in 1..(line_end - line_start + 1) |->
        hunk.lines[CHOOSE i \in 1..Len(hunk.lines) :
                      /\ AddedAt(hunk, i)
                      /\ NewFileNumber(hunk, i) = line_start + k - 1]]

\* C19 as stated: for a range lying wholly inside one hunk's added lines,
\* _extract_diff_excerpt returns exactly those added lines, in order, with
\* no removed line between them.
C19_ExactAddedLines ==
    fn = "_extract_diff_excerpt" =>
        \A h \in 1..Len(args.file.hunks) :
           InsideAddedLines(args.file.hunks[h], args.line_start,
                            args.line_end)
              => ret = JoinLines(AddedLines(args.file.hunks[h],
                                            args.line_start, args.line_end))

\* C19 amended: for such a range _extract_diff_excerpt returns those added
\* lines as they stand in the diff (with their "+"), each cut to 200
\* characters, joined by "\n" in order and cut to 500 characters, with no
\* removed line between them; line numbers count from new_start over added
\* and context lines only.
C19_AddedLinesTruncated ==
    fn = "_extract_diff_excerpt" =>
        \A h \in 1..Len(args.file.hunks) :
           InsideAddedLines(args.file.hunks[h], args.line_start,
                            args.line_end)
              => LET lines == AddedLines(args.file.hunks[h], args.line_start,
                                         args.line_end)
                 IN  ret = Take(JoinLines([k \in 1..Len(lines) |->
                                              Take(lines[k], 200)]), 500)

\* the patch of tests/test_flow.py, range 2..2: the line after the removed
\* line2 is returned
C19_Witness ==
    /\ fn = "_extract_diff_excerpt"
    /\ args.file.path = "a"
    /\ args.line_start = 2
    /\ args.line_end = 2
    /\ args.file.hunks[1].lines[2][1] = "-"
    /\ InsideAddedLines(args.file.hunks[1], 2, 2)
    /\ ret = <<"+", "l", "i", "n", "e", "2", "_", "n", "e", "w">>

\* C20: every Issue review_file returns carries evidence whose excerpt is
\* not empty and at most 500 characters long, for every file (one without
\* hunks and a range outside all hunks included) and every documentation
\* evidence passed in (one with an empty excerpt included).
C20_ExcerptBounded ==
    (fn = "review_file" /\ ~ret.raised) =>
        \A i \in 1..Len(ret.value) :
           /\ ret.value[i].evidence.some
           /\ ret.value[i].evidence.val.excerpt # <<>>
           /\ Len(ret.value[i].evidence.val.excerpt) <= 500

\* an issue came back with the documentation placeholder for an empty
\* documentation excerpt
C20_Witness ==
    /\ fn = "review_file"
    /\ args.docs_evidence # <<>>
    /\ args.docs_evidence[1].excerpt = <<>>
    /\ ~ret.raised
    /\ ret.value # <<>>
    /\ Len(ret.value[1].evidence.val.excerpt) = 26

\* an issue came back with a diff excerpt cut at the maximum
C20_WitnessCut ==
    /\ fn = "review_file"
    /\ args.docs_evidence = <<>>
    /\ args.file.path = "m"
    /\ ~ret.raised
    /\ ret.value # <<>>
    /\ ret.value[1].line_start = 1
    /\ ret.value[1].line_end = 3
    /\ Len(ret.value[1].evidence.val.excerpt) = 500

-----------------------------------------------------------------------------
(* C21: every Issue that review_file returns has a resolved line range     *)
(* with 1 <= line_start <= line_end, whatever the candidate gave: no       *)
(* line_start, no line_end, neither, an end before the start, or line      *)
(* numbers that are zero or negative.                                      *)

C21_ResolvedRange ==
    (fn = "review_file" /\ ~ret.raised) =>
        \A i \in 1..Len(ret.value) :
            /\ 1 <= ret.value[i].line_start
            /\ ret.value[i].line_start <= ret.value[i].line_end

\* the raw candidates of the answer review_file was given
RawCandidates ==
    IF fn = "review_file" /\ ~args.completion.raised
       /\ args.completion.value.json /\ args.completion.value.is_dict
       /\ args.completion.value.issues.some
       /\ args.completion.value.issues.val.is_list
    THEN args.completion.value.issues.val.items
    ELSE <<>>

\* an issue came back for a candidate whose start is below 1 and whose end
\* lies before its start, in a file whose first hunk starts at line 0
C21_Witness ==
    /\ fn = "review_file" /\ ~ret.raised
    /\ Len(ret.value) = 1 /\ Len(RawCandidates) = 1
    /\ args.file = FileDeleted
    /\ RawCandidates[1].line_start = Some(0)
    /\ RawCandidates[1].line_end = Some(-1)
    /\ ret.value[1].line_start = 1 /\ ret.value[1].line_end = 1

\* an issue came back for a candidate without line range in a file whose
\* diff has no added line and starts at line 0
C21_WitnessOmitted ==
    /\ fn = "review_file" /\ ~ret.raised
    /\ Len(ret.value) = 1 /\ Len(RawCandidates) = 1
    /\ args.file = FileDeleted
    /\ RawCandidates[1].line_start = NoneVal
    /\ RawCandidates[1].line_end = NoneVal
    /\ ret.value[1].line_start = 1
-----------------------------------------------------------------------------
(* Properties of get_completion and is_rate_limit_error *)

\* the events of the get_completion call under way or just classified
CallTrace ==
    IF fn \in {"get_completion", "is_rate_limit_error"}
    THEN args.trace ELSE <<>>

\* the positions of the attempts in the trace, and the attempts in order
AttemptPositions == {i \in 1..Len(CallTrace) : CallTrace[i].kind = "attempt"}

IsAttempt(e) == e.kind = "attempt"

AttemptsMade == SelectSeq(CallTrace, IsAttempt)

IsSleep(e) == e.kind = "sleep"

SleepsMade == SelectSeq(CallTrace, IsSleep)

\* the failures the retry policy is stated for: rate limit, connection
\* failure, timeout, server error
StatedRetryable(outcome) ==
    /\ outcome.raised
    /\ outcome.exc.type \in {"RateLimitError", "APIConnectionError",
                             "APITimeoutError", "InternalServerError"}

\* C22: one call of get_completion makes at most 3 attempts; each attempt
\* after the first directly follows an attempt that failed with a retryable
\* error (rate limit, connection failure, timeout, server error), made while
\* fewer than 3 attempts had been made; a successful attempt or a failure
\* that is not retryable (such as the empty-response error) is the last
\* event of the call and is its outcome.
C22_AtMostThreeAttempts ==
    /\ Len(AttemptsMade) <= 3
    /\ \A k \in 2..Len(AttemptsMade) :
          /\ StatedRetryable(AttemptsMade[k - 1].outcome)
          /\ k - 1 < 3
    /\ \A i \in AttemptPositions :
          ~StatedRetryable(CallTrace[i].outcome) =>
              /\ i = Len(CallTrace)
              /\ fn = "get_completion" => ret = CallTrace[i].outcome
    /\ (fn = "get_completion" /\ ret = NoneVal) => Len(AttemptsMade) < 3

\* a call that ended at its second attempt with the empty-response error,
\* after a first attempt that hit the rate limit
C22_Witness ==
    /\ fn = "get_completion"
    /\ Len(AttemptsMade) = 2
    /\ AttemptsMade[1].outcome = Raised(Exc("RateLimitError"))
    /\ AttemptsMade[2].outcome = Raised(Exc("ValueError"))
    /\ ret = Raised(Exc("ValueError"))

\* a call that returned text at its third attempt
C22_WitnessThird ==
    /\ fn = "get_completion"
    /\ Len(AttemptsMade) = 3
    /\ ret = Returned(NotJson)

\* all three attempts of the call failed with retryable errors
Exhausted ==
    /\ fn = "get_completion"
    /\ Len(AttemptsMade) = 3
    /\ \A k \in 1..3 : StatedRetryable(AttemptsMade[k].outcome)

\* C23 as stated: when all 3 attempts fail with retryable errors the caller
\* gets a retry-exhausted wrapper whose inner error is the last attempt's
\* error, not the bare error.
C23_WrappedError ==
    Exhausted => ret = Raised(RetryError(AttemptsMade[3].outcome.exc.type))

\* C23 amended: when all 3 attempts fail with retryable errors the caller
\* gets the last attempt's error itself, without any wrapper.
C23_BareLastError ==
    Exhausted =>
        /\ ret = AttemptsMade[3].outcome
        /\ ret.exc.type # "RetryError"

\* three failed attempts, the last one a timeout after two rate limits
C23_Witness ==
    /\ Exhausted
    /\ AttemptsMade[1].outcome = Raised(Exc("RateLimitError"))
    /\ AttemptsMade[2].outcome = Raised(Exc("RateLimitError"))
    /\ ret = Raised(Exc("APITimeoutError"))

\* C24: is_rate_limit_error is true exactly for a rate-limit error and for a
\* retry-exhaustion wrapper whose last attempt's error is a rate-limit error;
\* so the error of a call whose earlier attempts hit the rate limit and
\* whose final attempt failed with another retryable error is not
\* classified as rate-limited.
C24_Classifier ==
    fn = "is_rate_limit_error" =>
        /\ ret <=> \/ args.exc.type = "RateLimitError"
                   \/ /\ args.exc.type = "RetryError"
                      /\ args.exc.last_attempt = Some("RateLimitError")
        /\ ( /\ Len(AttemptsMade) >= 2
             /\ \E k \in 1..(Len(AttemptsMade) - 1) :
                   AttemptsMade[k].outcome = Raised(Exc("RateLimitError"))
             /\ StatedRetryable(AttemptsMade[Len(AttemptsMade)].outcome)
             /\ AttemptsMade[Len(AttemptsMade)].outcome
                   # Raised(Exc("RateLimitError")) )
           => ret = FALSE

\* a wrapper around a rate-limit error was classified as rate-limited
C24_Witness ==
    /\ fn = "is_rate_limit_error"
    /\ args.exc = RetryError("RateLimitError")
    /\ ret = TRUE

\* the error of a call with two rate limits and a final server error was
\* classified as not rate-limited
C24_WitnessMixed ==
    /\ fn = "is_rate_limit_error"
    /\ Len(AttemptsMade) = 3
    /\ AttemptsMade[1].outcome = Raised(Exc("RateLimitError"))
    /\ AttemptsMade[2].outcome = Raised(Exc("RateLimitError"))
    /\ args.exc = Exc("InternalServerError")
    /\ ret = FALSE

\* C25 as stated: the k-th wait of a call is 4 * 2^(k-1) seconds and at
\* most 10 (4 s before the second attempt, 8 s before the third); a wait
\* happens only between two attempts, never before the first attempt or
\* after the final one.
C25_Backoff ==
    /\ \A k \in 1..Len(SleepsMade) :
          /\ SleepsMade[k].seconds = 4 * 2 ^ (k - 1)
          /\ SleepsMade[k].seconds <= 10
    /\ \A i \in 1..Len(CallTrace) :
          IsSleep(CallTrace[i]) =>
              /\ i > 1
              /\ IsAttempt(CallTrace[i - 1])
              /\ i < Len(CallTrace) => IsAttempt(CallTrace[i + 1])
              /\ i = Len(CallTrace) => (fn = "get_completion" /\ ret = NoneVal)

\* what the code does: every wait of a call lasts 4 seconds, and waits
\* happen only between two attempts
C25_ConstantWait ==
    /\ \A k \in 1..Len(SleepsMade) : SleepsMade[k].seconds = 4
    /\ Len(SleepsMade) = Max(0, Len(AttemptsMade) - 1)
         + (IF fn = "get_completion" /\ ret = NoneVal /\ CallTrace # <<>>
            THEN 1 ELSE 0)
-----------------------------------------------------------------------------
(* Properties of SecretRedactor.redact *)

\* sub occurs in text
Contains(text, sub) == \E i \in 1..Len(text) : LitAt(text, i, sub)

\* C26: the text redact returns (the user prompt review_file sends to the
\* completion call) holds no token of a known format (GitHub ghp_, Hugging
\* Face hf_, OpenAI sk-, Gemini AIza) and no quoted literal of 8 or more
\* characters assigned to a secret-like name that the input held; a text
\* without such literals is returned unchanged.
C26_SecretsRedacted ==
    fn = "redact" =>
        /\ \A k \in 1..Len(args.lines) :
              args.lines[k].secret.some =>
                  ~Contains(ret, args.lines[k].secret.val)
        /\ (\A k \in 1..Len(args.lines) : ~args.lines[k].secret.some)
              => ret = args.text

\* what the code does: the same for every secret except the Hugging Face
\* token, which no pattern matches and which is returned as it came
C26_PatternSecretsRedacted ==
    fn = "redact" =>
        /\ \A k \in 1..Len(args.lines) :
              args.lines[k].secret.some =>
                  IF args.lines[k].text = TokenHuggingFace
                  THEN Contains(ret, TokenHuggingFace)
                  ELSE /\ ~Contains(ret, args.lines[k].secret.val)
                       /\ Contains(ret, Stars)
        /\ (\A k \in 1..Len(args.lines) : ~args.lines[k].secret.some)
              => ret = args.text
-----------------------------------------------------------------------------
(* Properties of the run and of apply_policy, continued *)

\* C27: once a completion call of a run has ended with a rate-limit
\* classified error, no further completion call is issued in that run: a
\* rate-limited triage is followed by no file review at all, a rate-limited
\* file review by no review of a later file.
C27_NoCallAfterRateLimit ==
    /\ \A i \in 1..Len(llm_log) :
          RateLimitClassified(llm_log[i]) => i = Len(llm_log)
    /\ (llm_log # <<>> /\ RateLimitClassified(llm_log[1])) => review_log = <<>>
    /\ \A i \in 1..Len(review_log) :
          review_log[i].raised => i = Len(review_log)

\* a finished run in which the review of the first of three selected files
\* hit the rate limit: two calls were issued, triage and that review
C27_Witness ==
    /\ pc = "done"
    /\ Len(SelectedPaths) = 3
    /\ Len(llm_log) = 2
    /\ ~llm_log[1].raised
    /\ RateLimitClassified(llm_log[2])
    /\ Len(review_log) = 1
    /\ rate_limit_reached

\* the gates as the specification words them
StatedPass(issue) ==
    /\ issue.confidence >= min_confidence[issue.severity]
    /\ HasEvidenceAndText(issue)
    /\ issue.severity \in {"BLOCKER", "IMPORTANT"}
          => HasConcreteSuggestion(issue)

\* the positions of the input issues with the given key that pass all gates
PassingWithKey(key) ==
    {i \in Indices(issues) : StatedPass(issues[i]) /\ StatedKey(issues[i]) = key}

\* kept is the first input issue with its key that passes all gates
IsFirstPassing(kept) ==
    LET passing == PassingWithKey(StatedKey(kept))
    IN  /\ passing # {}
        /\ Plain(kept)
              = Plain(issues[CHOOSE i \in passing : \A j \in passing : i <= j])

\* C28: among the issues that share one deduplication key, the one
\* apply_policy keeps is the first in input order that passes all gates: it
\* is the only one of them in the ranked list and in the output, whatever
\* the confidence of later duplicates, and every key with a passing issue
\* is represented in the ranked list even when an earlier issue with that
\* key fails a gate.
C28_FirstPassingKept ==
    calls >= 1 =>
        /\ \A k \in Indices(unique_issues) : IsFirstPassing(unique_issues[k])
        /\ \A k \in Indices(final_issues) : IsFirstPassing(final_issues[k])
        /\ \A i \in Indices(issues) :
              StatedPass(issues[i]) =>
                  \E k \in Indices(unique_issues) :
                      StatedKey(unique_issues[k]) = StatedKey(issues[i])

\* three issues with one key: the first fails the evidence gate, the second
\* passes, the third passes with a higher confidence; the second is returned
C28_Witness ==
    /\ pc = "applied"
    /\ Len(issues) = 3
    /\ StatedKey(issues[1]) = StatedKey(issues[2])
    /\ StatedKey(issues[2]) = StatedKey(issues[3])
    /\ ~StatedPass(issues[1])
    /\ issues[1].confidence > issues[3].confidence
    /\ StatedPass(issues[2])
    /\ StatedPass(issues[3])
    /\ issues[3].confidence > issues[2].confidence
    /\ Len(final_issues) = 1
    /\ final_issues[1].id = issues[2].id
-----------------------------------------------------------------------------
(* Properties of the default line *)

\* the positions of the added lines of a hunk
AddedPositions(hunk) ==
    {j \in 1..Len(hunk.lines) : Prefix(hunk.lines[j]) = "+"}

\* the new-file line number of line j of a hunk: new_start plus the number
\* of added and context lines before it
NewFileLine(hunk, j) ==
    hunk.new_start
    + Cardinality({k \in 1..(j - 1) : Prefix(hunk.lines[k]) \in {"+", " "}})

\* the hunks of a file that hold an added line
HunksWithAddition(file) ==
    {h \in 1..Len(file.hunks) : AddedPositions(file.hunks[h]) # {}}

\* the new-file line number of the first added line of the first hunk that
\* holds one
FirstAddedNumber(file) ==
    LET h == CHOOSE h \in HunksWithAddition(file) :
                \A other \in HunksWithAddition(file) : h <= other
        j == CHOOSE j \in AddedPositions(file.hunks[h]) :
                \A other \in AddedPositions(file.hunks[h]) : j <= other
    IN  NewFileLine(file.hunks[h], j)

\* review_file returned the issue of a single candidate without line_start
OmittedStart ==
    /\ fn = "review_file" /\ ~ret.raised
    /\ Len(RawCandidates) = 1 /\ Len(ret.value) = 1
    /\ RawCandidates[1].is_dict
    /\ ~RawCandidates[1].line_start.some

\* C29 as stated: when a candidate omits its line range the resolved
\* line_start is the new-file line number of the first added line of the
\* diff; without added line it is the first hunk's new_start; without hunks
\* it is 1; and it is never below 1.
C29_DefaultLine ==
    OmittedStart =>
        /\ ret.value[1].line_start >= 1
        /\ ret.value[1].line_start
              = IF HunksWithAddition(args.file) # {}
                THEN FirstAddedNumber(args.file)
                ELSE IF args.file.hunks # <<>>
                     THEN args.file.hunks[1].new_start
                     ELSE 1

\* C29 amended: the same, with the first hunk's new_start raised to 1 when
\* it is lower (the hunk of a deleted file starts at new-file line 0).
C29_DefaultLineAtLeastOne ==
    OmittedStart =>
        /\ ret.value[1].line_start >= 1
        /\ ret.value[1].line_start
              = IF HunksWithAddition(args.file) # {}
                THEN Max(1, FirstAddedNumber(args.file))
                ELSE IF args.file.hunks # <<>>
                     THEN Max(1, args.file.hunks[1].new_start)
                     ELSE 1

\* the first added line is found in the second hunk, after a context line
C29_Witness ==
    /\ OmittedStart
    /\ args.file = FileLateAddition
    /\ HunksWithAddition(args.file) = {2}
    /\ args.file.hunks[2].new_start = 4
    /\ ret.value[1].line_start = 5

\* a deleted file: no added line, new_start 0, resolved line 1
C29_WitnessDeleted ==
    /\ OmittedStart
    /\ args.file = FileDeleted
    /\ args.file.hunks[1].new_start = 0
    /\ ret.value[1].line_start = 1

\* a file without hunks: resolved line 1
C29_WitnessNoHunks ==
    /\ OmittedStart
    /\ args.file.hunks = <<>>
    /\ ret.value[1].line_start = 1
-----------------------------------------------------------------------------
(* Properties of the selection of files *)

\* C30: review_file is called only for a file of
\* filter_result.files_to_review whose path the triage plan lists: a path
\* of the plan that belongs to an excluded file or to no changed file
\* causes no call, and no file is reviewed twice in a run, however often
\* the plan lists its path.
C30_OnlySelectedReviewed ==
    /\ \A i \in 1..Len(review_log) :
          /\ review_log[i].path \in Range(PathsOfFiles(filter_files))
          /\ review_log[i].path \in Range(files_to_review_paths)
          /\ review_log[i].path \notin {ExcludedPath, UnknownPath}
    /\ \A i \in 1..Len(review_log) : \A j \in 1..Len(review_log) :
          i # j => review_log[i].path # review_log[j].path

\* a finished run whose plan names an excluded file and the first of three
\* files twice: that file was reviewed once and nothing else was
C30_Witness ==
    /\ pc = "done"
    /\ Len(filter_files) = 3
    /\ files_to_review_paths = <<ExcludedPath, "a", "a">>
    /\ Len(review_log) = 1
    /\ review_log[1].path = "a"
    /\ ~review_log[1].raised
====
